---- MODULE Spec2Model ----
(***************************************************************************)
(* A model of the deviantart_watcher reconciliation engine: the streaming  *)
(* download of the API client (da_watcher/api.py), the per-account pass    *)
(* process_user_once and its orchestrators (da_watcher/watcher.py,         *)
(* web_backend/services.py), the seen/catalog store                        *)
(* (da_watcher/database.py) and the background job state                   *)
(* (web_backend/job_state.py).                                             *)
(***************************************************************************)
EXTENDS Integers, Sequences, FiniteSets, TLC

\* ------------------------------------------------------------------ bounds
MaxDlCalls == 3
MaxPages == 2
PageLen == 1
MaxSeenCfg == 2
MaxJobCalls == 3
MaxTrimArg == 3
MaxTags == 3
MaxNameLen == 2
MaxPageArg == 3

\* ---------------------------------------------------------------- universe
Users == {"u1", "u2"}
Ids == {"d1", "d2"}
Urls == {"orig", "preview"}

\* Number of chunks iter_content yields for the body served at a URL.
BodyLen(url) == IF url = "orig" THEN 2 ELSE 1

\* A path below the output directory: <output_dir>/<user>/<id>_<title><ext>,
\* or that path with ".part" appended.
Paths == [user : Users, id : Ids, part : BOOLEAN]
DestPaths == {p \in Paths : ~p.part}

NoFile == [url |-> "-", len |-> 0]
FullBody(url) == [url |-> url, len |-> BodyLen(url)]

VARIABLES
    \* ---- persisted state
    seen,       \* seen_deviations: per account, its rows in rowid order
    images,     \* images: the relative paths that have a catalog row
    artists,    \* artists: the accounts that have a row
    disk,       \* the output tree: path -> content (NoFile when absent)
    \* ---- the run orchestrator (watcher.run / services.run_download_job)
    orchPc,     \* "off", "idle", "loop", "done" or "crashed"
    kind,       \* "cli" or "web"
    cfg,        \* the AppConfig and page window of the run
    userIdx,    \* index into cfg.usernames of the account in hand
    cycle,      \* cycle_stats
    errors,     \* the per-account errors recorded by the run
    \* ---- process_user_once
    puoPc,      \* "none", "load", "page", "items", "trim", "returned", "raised"
    seen_set,
    seeded_set,
    local_ids,
    processed_this_run,
    pagesDone,  \* iterations of `for _ in range(max_pages)` entered
    itemsLeft,  \* entries of the fetched page not yet iterated
    stats,      \* pages_checked, new_items, downloaded, existing, skipped
    puoExc,     \* the exception that left process_user_once ("none" if none)
    puoExcAt,   \* the call that raised it
    \* ---- observations
    startStale,   \* ids stale (seen, not seeded, no file) when the pass began
    startHandled, \* ids seen and (seeded or on disk) when the pass began
    dlFailedNow,  \* ids whose download failed on the network in this pass
    prevFailed,   \* per account, dlFailedNow of its previous pass
    lastItem,     \* id and branch taken by the latest item iteration
    lastPage,     \* what the latest page said: "more", "last", or "none" so far
    lastDeleted,  \* whether the item of the latest iteration that classified one is flagged is_deleted
    \* ---- download_file, step by step
    dlPc,       \* position of the download_file call in progress
    dlUrl,      \* its url argument
    dlDest,     \* its destination argument
    dlFail,     \* the exception raised inside its try block ("none" if none)
    dlRaised,   \* the exception that left download_file ("none" if none)
    dlResult,   \* "none" while running, then "True", "False" or "raise"
    dlReqs,     \* HTTP requests issued by the call in progress
    dlExisted,  \* whether the destination was on disk when the call was made
    dlLog,      \* the completed calls, oldest first
    \* ---- the background job (web_backend/job_state.py, services.py, routes.py)
    jobLock,    \* holder of DownloadJobState._lock ("none" when free)
    jobState,   \* DownloadJobState._state
    jobCalls,   \* try_start calls issued so far
    reqPc,      \* per request thread: its position in api_run
    reqSnap,    \* per request thread: the snapshot try_start returned
    wPc,        \* per job id: position of its run_download_job_worker thread
    wResult,    \* per job id: what run_download_job returned
    wExc,       \* per job id: the exception caught by the worker ("none" if none)
    \* ---- the store and the catalog, operation by operation (database.py)
    meta,       \* per catalog path: image_title, tags and is_favorite of its row
    outside,    \* whether the file next to the output directory still exists
    lastOp,     \* the latest database operation, its arguments and its result
    \* ---- tag normalisation (watcher.normalize_tags, database._normalize_tags)
    tagCall,    \* the tag sequence in hand, the list extracted from it, the string stored
    \* ---- one call of a function of its arguments alone
    fnCall      \* the function, its arguments, and what it returned or raised

dlVars == <<dlPc, dlUrl, dlDest, dlFail, dlRaised, dlResult, dlReqs, dlExisted, dlLog>>
storeVars == <<seen, images, artists>>
orchVars == <<orchPc, kind, cfg, userIdx, cycle, errors>>
puoVars == <<puoPc, seen_set, seeded_set, local_ids, processed_this_run, pagesDone,
             itemsLeft, stats, puoExc, puoExcAt>>
obsVars == <<startStale, startHandled, dlFailedNow, prevFailed, lastItem, lastPage,
             lastDeleted>>
engineVars == <<storeVars, orchVars, puoVars, obsVars>>
jobVars == <<jobLock, jobState, jobCalls, reqPc, reqSnap, wPc, wResult, wExc>>
catVars == <<meta, outside, lastOp, tagCall, fnCall>>
vars == <<disk, dlVars, engineVars, jobVars, catVars>>

\* ------------------------------------------------- api.py: download_file
RequestExceptions == {"ConnectionError", "HTTPError", "ChunkedEncodingError"}
IsRequestException(exc) == exc \in RequestExceptions

Exists(d, p) == d[p] # NoFile

DestinationExistsNever(d, dest) == FALSE
\* `if destination.exists(): return False`
DestinationExists(d, dest) == Exists(d, dest)

TmpPathIsDestination(dest) == dest
\* `tmp_path = destination.with_suffix(destination.suffix + ".part")`
TmpPath(dest) == [dest EXCEPT !.part = TRUE]

CleanupTmpSkipped(d, tmp) == d
\* `if tmp_path.exists(): tmp_path.unlink(missing_ok=True)`
CleanupTmp(d, tmp) == IF Exists(d, tmp) THEN [d EXCEPT ![tmp] = NoFile] ELSE d

\* `tmp_path.replace(destination)`
Replace(d, tmp, dest) == [p \in DOMAIN d |->
                            IF p = dest THEN d[tmp]
                            ELSE IF p = tmp THEN NoFile
                            ELSE d[p]]

DlDests == {p \in DestPaths : p.user = "u1"}

\* Entry and the existence check.
DlCall(url, dest) ==
    /\ dlPc = "idle"
    /\ Len(dlLog) < MaxDlCalls
    /\ dlUrl' = url
    /\ dlDest' = dest
    /\ dlFail' = "none"
    /\ dlRaised' = "none"
    /\ dlReqs' = 0
    /\ dlExisted' = Exists(disk, dest)
    /\ IF DestinationExists(disk, dest)
         THEN dlResult' = "False" /\ dlPc' = "returned"
         ELSE dlResult' = "none" /\ dlPc' = "get"
    /\ UNCHANGED <<disk, dlLog, engineVars, jobVars, catVars>>

\* `session.get(url, stream=True)` and `response.raise_for_status()`.
DlGet ==
    /\ dlPc = "get"
    /\ dlReqs' = dlReqs + 1
    /\ \E outcome \in {"ok", "ConnectionError", "HTTPError"} :
         IF outcome = "ok"
           THEN dlPc' = "open" /\ dlFail' = dlFail
           ELSE dlPc' = "except" /\ dlFail' = outcome
    /\ UNCHANGED <<disk, dlUrl, dlDest, dlRaised, dlResult, dlExisted, dlLog, engineVars, jobVars, catVars>>

\* `tmp_path.open("wb")`: creates or truncates the temp file.
DlOpen ==
    /\ dlPc = "open"
    /\ \/ /\ disk' = [disk EXCEPT ![TmpPath(dlDest)] = [url |-> dlUrl, len |-> 0]]
          /\ dlPc' = "stream"
          /\ dlFail' = dlFail
       \/ /\ dlPc' = "except"
          /\ dlFail' = "OSError"
          /\ disk' = disk
    /\ UNCHANGED <<dlUrl, dlDest, dlRaised, dlResult, dlReqs, dlExisted, dlLog, engineVars, jobVars, catVars>>

\* One round of `for chunk in response.iter_content(...)`: the next chunk is
\* written, or the transport fails, or the write fails; after the last chunk
\* both context managers close.
DlChunk ==
    /\ dlPc = "stream"
    /\ LET tmp == TmpPath(dlDest)
           written == disk[tmp].len
       IN  \/ /\ written < BodyLen(dlUrl)
              /\ disk' = [disk EXCEPT ![tmp].len = written + 1]
              /\ dlPc' = "stream"
              /\ dlFail' = dlFail
           \/ /\ written < BodyLen(dlUrl)
              /\ \E exc \in {"ChunkedEncodingError", "OSError"} : dlFail' = exc
              /\ dlPc' = "except"
              /\ disk' = disk
           \/ /\ written = BodyLen(dlUrl)
              /\ dlPc' = "replace"
              /\ dlFail' = dlFail
              /\ disk' = disk
    /\ UNCHANGED <<dlUrl, dlDest, dlRaised, dlResult, dlReqs, dlExisted, dlLog, engineVars, jobVars, catVars>>

\* `tmp_path.replace(destination); return True`
DlReplace ==
    /\ dlPc = "replace"
    /\ \/ /\ disk' = Replace(disk, TmpPath(dlDest), dlDest)
          /\ dlResult' = "True"
          /\ dlPc' = "returned"
          /\ dlFail' = dlFail
       \/ /\ dlFail' = "OSError"
          /\ dlPc' = "except"
          /\ UNCHANGED <<disk, dlResult>>
    /\ UNCHANGED <<dlUrl, dlDest, dlRaised, dlReqs, dlExisted, dlLog, engineVars, jobVars, catVars>>

\* `except Exception:` remove the temp file and re-raise.
DlExcept ==
    /\ dlPc = "except"
    /\ disk' = CleanupTmp(disk, TmpPath(dlDest))
    /\ dlRaised' = dlFail
    /\ dlResult' = "raise"
    /\ dlPc' = "returned"
    /\ UNCHANGED <<dlUrl, dlDest, dlFail, dlReqs, dlExisted, dlLog, engineVars, jobVars, catVars>>

\* Control is back at the caller.
DlReturn ==
    /\ dlPc = "returned"
    /\ dlLog' = Append(dlLog, [dest |-> dlDest, existed |-> dlExisted,
                             result |-> dlResult, reqs |-> dlReqs])
    /\ dlPc' = "idle"
    /\ UNCHANGED <<disk, dlUrl, dlDest, dlFail, dlRaised, dlResult, dlReqs, dlExisted, engineVars, jobVars, catVars>>

\* The whole call as its caller sees it: `fate` is "ok" or the exception the
\* request, the stream, a write or the rename raises.
DownloadFates == {"ok", "ConnectionError", "HTTPError", "ChunkedEncodingError", "OSError"}
DownloadFile(d, url, dest, fate) ==
    IF DestinationExists(d, dest)
      THEN [disk |-> d, result |-> "False"]
      ELSE IF fate = "ok"
        THEN [disk |-> Replace([d EXCEPT ![TmpPath(dest)] = FullBody(url)],
                               TmpPath(dest), dest),
              result |-> "True"]
        ELSE [disk |-> CleanupTmp(d, TmpPath(dest)), result |-> fate]

\* --------------------------------------------- database.py: the seen store
RowIds(rows) == {rows[k].id : k \in 1..Len(rows)}

\* get_seen_ids
GetSeenIds(s, u) == RowIds(s[u])

\* get_seeded_ids
GetSeededIds(s, u) == {s[u][k].id : k \in {j \in 1..Len(s[u]) : s[u][j].seeded}}

\* INSERT ... ON CONFLICT(artist_id, deviation_id) DO UPDATE SET seeded
UpsertRow(rows, id, seeded) ==
    IF id \in RowIds(rows)
      THEN [k \in 1..Len(rows) |->
              IF rows[k].id = id THEN [rows[k] EXCEPT !.seeded = seeded] ELSE rows[k]]
      ELSE Append(rows, [id |-> id, seeded |-> seeded])

\* upsert_seen
UpsertSeen(s, u, id, seeded) == [s EXCEPT ![u] = UpsertRow(@, id, seeded)]

RemoveSeenIdsNever(s, u, ids) == s
\* remove_seen_ids
RemoveSeenIds(s, u, ids) == [s EXCEPT ![u] = SelectSeq(@, LAMBDA r : r.id \notin ids)]

TrimSeenNever(s, u, n) == s
TrimSeenKeepsOldest(s, u, n) ==
    IF n < 1 THEN s
    ELSE [s EXCEPT ![u] = IF Len(@) <= n THEN @ ELSE SubSeq(@, 1, n)]
\* trim_seen
TrimSeen(s, u, n) ==
    IF n < 1 THEN s
    ELSE [s EXCEPT ![u] = IF Len(@) <= n THEN @ ELSE SubSeq(@, Len(@) - n + 1, Len(@))]

\* The legacy state.json read at start-up: missing, or this content.
LegacyFiles == {"missing", "state"}
LegacyState ==
    [u \in Users |->
        IF u = "u1" THEN [seen_ids |-> <<"d1", "d2">>, seeded_ids |-> {"d2"}]
        ELSE [seen_ids |-> <<"d1">>, seeded_ids |-> {"d1", "d2"}]]

RECURSIVE MigrateRows(_, _, _)
MigrateRows(rows, ids, seededIds) ==
    IF ids = <<>> THEN rows
    ELSE MigrateRows(UpsertRow(rows, Head(ids), Head(ids) \in seededIds),
                     Tail(ids), seededIds)

\* migrate_from_state_json
MigrateFromStateJson(s, legacy) ==
    IF legacy = "missing" THEN s
    ELSE [u \in Users |->
            MigrateRows(s[u], LegacyState[u].seen_ids, LegacyState[u].seeded_ids)]

MigratedArtists(legacy) == IF legacy = "missing" THEN {} ELSE Users

\* sync_images_from_filesystem: the catalog becomes the image files on disk.
SyncImagesAllFiles(d) == {p \in Paths : Exists(d, p)}
SyncImages(d) == {p \in DestPaths : Exists(d, p)}
SyncArtists(d) == {p.user : p \in SyncImages(d)}

\* ------------------------------------------- storage.py / watcher.py helpers
\* build_output_path
BuildOutputPath(u, id) == [user |-> u, id |-> id, part |-> FALSE]

\* collect_local_deviation_ids: the prefix before the first "_" of every file
\* name in the account's directory.
CollectLocalDeviationIds(d, u) == {p.id : p \in {q \in Paths : q.user = u /\ Exists(d, q)}}

StaleIdsNone(ss, sd, loc) == {}
\* `stale_ids = [id for id in seen_set if id not in seeded_set and id not in local_ids]`
StaleIds(ss, sd, loc) == {id \in ss : id \notin sd /\ id \notin loc}

\* `if deviation_id in seeded_set or deviation_id in local_ids: continue`
AlreadyHandled(id, ss, sd, loc) == id \in ss /\ (id \in sd \/ id \in loc)

MarkSeenSetsForgetSeen(ss, sd, id, seeded) ==
    [seen |-> ss, seeded |-> IF seeded THEN sd \cup {id} ELSE sd \ {id}]
\* mark_seen, the in-memory part
MarkSeenSets(ss, sd, id, seeded) ==
    [seen |-> ss \cup {id}, seeded |-> IF seeded THEN sd \cup {id} ELSE sd \ {id}]

ApiErrors == {"DeviantArtApiError"}
NetErrors == {"ConnectionError"}

\* `except DeviantArtApiError` around fetch_download_info and fetch_deviation
InfoFailureCaught(exc) == exc \in ApiErrors

DownloadFailureCaughtNever(exc) == FALSE
\* `except requests.RequestException` around download_file
DownloadFailureCaught(exc) == IsRequestException(exc)

\* watcher.run: `except DeviantArtApiError`, `except requests.RequestException`;
\* services.run_download_job: the same and `except Exception`.
OrchestratorCatches(k, exc) ==
    IF k = "web" THEN TRUE ELSE exc \in ApiErrors \/ IsRequestException(exc)

ZeroStats == [pages_checked |-> 0, new_items |-> 0, downloaded |-> 0,
              existing |-> 0, skipped |-> 0]
ZeroCycle == [users_checked |-> 0, pages_checked |-> 0, new_items |-> 0,
              downloaded |-> 0, existing |-> 0, skipped |-> 0]
NoItem == [id |-> "", branch |-> "none"]

\* Runs over one account, and runs over a list of accounts.
OneAccount == {<<"u1">>}
AccountLists == {<<"u1">>, <<"u2">>, <<"u1", "u2">>, <<"u2", "u1">>}
\* Both entry points keep max_seen at 100 or more; the model scales that floor
\* down to 1 together with the id universe, so that trimming still happens.
Configs(lists) == [usernames : lists, seed_only : BOOLEAN, allow_preview : BOOLEAN,
                   max_seen : {1, MaxSeenCfg}, max_pages : {MaxPages}]

InitialConfig == [usernames |-> <<"u1">>, seed_only |-> FALSE, allow_preview |-> FALSE,
                  max_seen |-> 1, max_pages |-> MaxPages]

CurUser == cfg.usernames[userIdx]

\* ------------------------------------------------- the run orchestrators
\* The process starts: watcher.run up to its loop (legacy migration, catalog
\* sync), or the import of the web application (bootstrap_database).
StartProcess(k, legacy) ==
    /\ orchPc = "off"
    /\ kind' = k
    /\ seen' = MigrateFromStateJson(seen, legacy)
    /\ images' = SyncImages(disk)
    /\ artists' = artists \cup MigratedArtists(legacy) \cup SyncArtists(disk)
    /\ orchPc' = "idle"
    /\ UNCHANGED <<disk, dlVars, jobVars, catVars, cfg, userIdx, cycle, errors, puoVars, obsVars>>

\* A cycle of watcher.run's `while True`, or a call of run_download_job.
StartRun(c) ==
    /\ orchPc \in {"idle", "done"}
    /\ (orchPc = "done" /\ kind = "cli") => c = cfg
    /\ cfg' = c
    /\ userIdx' = 1
    /\ cycle' = ZeroCycle
    /\ errors' = <<>>
    /\ orchPc' = "loop"
    /\ UNCHANGED <<disk, dlVars, jobVars, catVars, storeVars, kind, puoVars, obsVars>>

\* The process ends: the run returned or raised out of watcher.run, or the web
\* application is shut down between jobs.
StopProcess ==
    /\ orchPc \in {"idle", "done", "crashed"}
    /\ orchPc' = "off"
    /\ cfg' = InitialConfig
    /\ userIdx' = 1
    /\ cycle' = ZeroCycle
    /\ errors' = <<>>
    /\ UNCHANGED <<disk, dlVars, jobVars, catVars, storeVars, kind, puoVars, obsVars>>

\* process_user_once is entered: `seen_set = db.get_seen_ids(username)`.
CallPass ==
    /\ orchPc = "loop"
    /\ puoPc = "none"
    /\ userIdx <= Len(cfg.usernames)
    /\ LET u == CurUser
           ss == GetSeenIds(seen, u)
           sd == GetSeededIds(seen, u)
           loc == CollectLocalDeviationIds(disk, u)
       IN  /\ seen_set' = ss
           /\ startStale' = {id \in ss : id \notin sd /\ id \notin loc}
           /\ startHandled' = {id \in ss : id \in sd \/ id \in loc}
    /\ seeded_set' = {}
    /\ local_ids' = {}
    /\ processed_this_run' = {}
    /\ pagesDone' = 0
    /\ itemsLeft' = 0
    /\ stats' = ZeroStats
    /\ puoExc' = "none"
    /\ puoExcAt' = "none"
    /\ dlFailedNow' = {}
    /\ lastItem' = NoItem
    /\ lastPage' = "none"
    /\ lastDeleted' = FALSE
    /\ puoPc' = "load"
    /\ UNCHANGED <<disk, dlVars, jobVars, catVars, storeVars, orchVars, prevFailed>>

\* get_seeded_ids, collect_local_deviation_ids and the stale-seen recovery.
PuoPrepare ==
    /\ puoPc = "load"
    /\ LET u == CurUser
           sd == GetSeededIds(seen, u)
           loc == CollectLocalDeviationIds(disk, u)
           stale == IF cfg.seed_only THEN {} ELSE StaleIds(seen_set, sd, loc)
       IN  /\ seen' = IF stale = {} THEN seen ELSE RemoveSeenIds(seen, u, stale)
           /\ seen_set' = seen_set \ stale
           /\ seeded_set' = sd \ stale
           /\ local_ids' = loc
    /\ puoPc' = "page"
    /\ UNCHANGED <<disk, dlVars, jobVars, catVars, images, artists, orchVars, processed_this_run,
                   pagesDone, itemsLeft, stats, puoExc, puoExcAt, obsVars>>

\* One iteration of `for _ in range(max_pages)` up to the item loop.
FetchPage ==
    /\ puoPc = "page"
    /\ pagesDone' = pagesDone + 1
    /\ stats' = [stats EXCEPT !.pages_checked = @ + 1]
    /\ \E outcome \in {"page", "not_list"} \cup ApiErrors \cup NetErrors :
         CASE outcome = "page" ->
                /\ \E n \in 0..PageLen : itemsLeft' = n
                /\ puoPc' = "items"
                /\ UNCHANGED <<puoExc, puoExcAt>>
           [] outcome = "not_list" ->
                /\ puoPc' = "trim"
                /\ UNCHANGED <<itemsLeft, puoExc, puoExcAt>>
           [] OTHER ->
                /\ puoPc' = "raised"
                /\ puoExc' = outcome
                /\ puoExcAt' = "fetch_gallery_page"
                /\ UNCHANGED itemsLeft
    /\ UNCHANGED <<disk, dlVars, jobVars, catVars, storeVars, orchVars, seen_set, seeded_set, local_ids,
                   processed_this_run, obsVars>>

\* An entry that is skipped before it is classified: not a dict or no id,
\* already processed in this run, or seen and (seeded or on disk).
ItemSkip(id, branch) ==
    /\ lastItem' = [id |-> id, branch |-> branch]
    /\ lastDeleted' = FALSE
    /\ UNCHANGED <<disk, storeVars, puoPc, seen_set, seeded_set, local_ids,
                   processed_this_run, stats, puoExc, puoExcAt, dlFailedNow>>

\* The iteration ends with these values.
ItemEnds(id, branch, s, ar, d, im, sets, loc, st, failed) ==
    /\ lastItem' = [id |-> id, branch |-> branch]
    /\ seen' = s
    /\ artists' = ar
    /\ disk' = d
    /\ images' = im
    /\ seen_set' = sets.seen
    /\ seeded_set' = sets.seeded
    /\ local_ids' = loc
    /\ processed_this_run' = processed_this_run \cup {id}
    /\ stats' = st
    /\ dlFailedNow' = failed
    /\ UNCHANGED <<puoPc, puoExc, puoExcAt>>

\* The iteration raises out of process_user_once.
ItemRaises(id, branch, s, d, sets, st, exc, at) ==
    /\ lastItem' = [id |-> id, branch |-> branch]
    /\ seen' = s
    /\ disk' = d
    /\ seen_set' = sets.seen
    /\ seeded_set' = sets.seeded
    /\ processed_this_run' = processed_this_run \cup {id}
    /\ stats' = st
    /\ puoPc' = "raised"
    /\ puoExc' = exc
    /\ puoExcAt' = at
    /\ UNCHANGED <<artists, images, local_ids, dlFailedNow>>

AddLocalIdNever(loc, id) == loc
\* `local_ids.add(deviation_id)`
AddLocalId(loc, id) == loc \cup {id}

CountSkippedNever(st) == st
\* `skipped += 1`
CountSkipped(st) == [st EXCEPT !.skipped = @ + 1]

CountDownloadAsDownloaded(st, created) == [st EXCEPT !.downloaded = @ + 1]
\* `if created: downloaded += 1` / `else: existing += 1`
CountDownload(st, created) ==
    IF created THEN [st EXCEPT !.downloaded = @ + 1]
    ELSE [st EXCEPT !.existing = @ + 1]

\* download_file and what follows it.
ItemDownload(id, url, s1, sets1, st1) ==
    LET u == CurUser
        dest == BuildOutputPath(u, id)
    IN  \E fate \in DownloadFates :
          LET r == DownloadFile(disk, url, dest, fate)
              marked == MarkSeenSets(sets1.seen, sets1.seeded, id, FALSE)
              im == IF Exists(r.disk, dest) THEN images \cup {dest} ELSE images
          IN  IF r.result \in {"True", "False"}
                THEN ItemEnds(id, IF r.result = "True" THEN "downloaded" ELSE "existing",
                              UpsertSeen(s1, u, id, FALSE), artists \cup {u}, r.disk, im,
                              marked, AddLocalId(local_ids, id),
                              CountDownload(st1, r.result = "True"), dlFailedNow)
                ELSE IF DownloadFailureCaught(r.result)
                  THEN ItemEnds(id, "dl_neterr", s1, artists, r.disk, images, sets1,
                                local_ids, CountSkipped(st1),
                                dlFailedNow \cup {id})
                  ELSE ItemRaises(id, "dl_raise", s1, r.disk, sets1, st1,
                                  r.result, "download_file")

\* Tag resolution: tags on the item, or one fetch_deviation call.
ItemTags(id, url, s1, sets1, st1) ==
    \E has_tags \in BOOLEAN :
      IF has_tags
        THEN ItemDownload(id, url, s1, sets1, st1)
        ELSE \E detail \in {"ok"} \cup ApiErrors \cup NetErrors :
               IF detail = "ok" \/ InfoFailureCaught(detail)
                 THEN ItemDownload(id, url, s1, sets1, st1)
                 ELSE ItemRaises(id, "detail_raise", s1, disk, sets1, st1,
                                 detail, "fetch_deviation")

\* The url is settled: skip without one, else go on to tags and download.
ItemResolved(id, url, s1, sets1, st1) ==
    IF url = ""
      THEN ItemEnds(id, "nourl", s1, artists, disk, images, sets1, local_ids,
                    CountSkipped(st1), dlFailedNow)
      ELSE ItemTags(id, url, s1, sets1, st1)

\* `if not download_url and config.allow_preview:` use content.src
ItemPreview(id, url, s1, sets1, st1) ==
    IF url = "" /\ cfg.allow_preview
      THEN \E content_src \in BOOLEAN :
             ItemResolved(id, IF content_src THEN "preview" ELSE "", s1, sets1, st1)
      ELSE ItemResolved(id, url, s1, sets1, st1)

\* Download resolution: fetch_download_info for a downloadable item.
ItemResolve(id, s1, sets1, st1) ==
    \E is_downloadable \in BOOLEAN :
      IF is_downloadable
        THEN \E info \in {"src", "no_src"} \cup ApiErrors \cup NetErrors :
               CASE info = "src" -> ItemPreview(id, "orig", s1, sets1, st1)
                 [] info = "no_src" -> ItemPreview(id, "", s1, sets1, st1)
                 [] OTHER ->
                      IF InfoFailureCaught(info)
                        THEN ItemPreview(id, "", s1, sets1, st1)
                        ELSE ItemRaises(id, "info_raise", s1, disk, sets1, st1,
                                        info, "fetch_download_info")
        ELSE ItemPreview(id, "", s1, sets1, st1)

IsDeletedNever(flag) == FALSE
\* `if item.get("is_deleted"):`
IsDeleted(flag) == flag

SeedOnlyIgnored(c) == FALSE
\* `if config.seed_only:` in the item loop
SeedOnly(c) == c.seed_only

\* An item that is new to this run: inline unmark, then seed, skip a deleted
\* item, or resolve and download.
ItemNew(id) ==
    LET u == CurUser
        wasSeen == id \in seen_set
        s1 == IF wasSeen THEN RemoveSeenIds(seen, u, {id}) ELSE seen
        sets1 == IF wasSeen
                   THEN [seen |-> seen_set \ {id}, seeded |-> seeded_set \ {id}]
                   ELSE [seen |-> seen_set, seeded |-> seeded_set]
        st1 == [stats EXCEPT !.new_items = @ + 1]
    IN  \E is_deleted \in BOOLEAN :
          /\ lastDeleted' = is_deleted
          /\ IF SeedOnly(cfg)
               THEN ItemEnds(id, "seed", UpsertSeen(s1, u, id, TRUE), artists \cup {u},
                             disk, images,
                             MarkSeenSets(sets1.seen, sets1.seeded, id, TRUE),
                             local_ids, st1, dlFailedNow)
               ELSE IF IsDeleted(is_deleted)
                 THEN ItemEnds(id, "deleted", s1, artists, disk, images, sets1,
                               local_ids, CountSkipped(st1), dlFailedNow)
                 ELSE ItemResolve(id, s1, sets1, st1)

AlreadyProcessedNever(id, processed) == FALSE
\* `deviation_id in processed_this_run`
AlreadyProcessed(id, processed) == id \in processed

\* One iteration of `for item in results`.
ProcessItem ==
    /\ puoPc = "items"
    /\ itemsLeft > 0
    /\ itemsLeft' = itemsLeft - 1
    /\ \E id \in Ids \cup {""} :
         IF id = "" THEN ItemSkip(id, "invalid")
         ELSE IF AlreadyProcessed(id, processed_this_run) THEN ItemSkip(id, "dup")
         ELSE IF AlreadyHandled(id, seen_set, seeded_set, local_ids)
           THEN ItemSkip(id, "handled")
         ELSE ItemNew(id)
    /\ UNCHANGED <<dlVars, jobVars, catVars, orchVars, pagesDone, startStale, startHandled, prevFailed,
                   lastPage>>

ContinuePagingIgnoresFlags(has_more, has_next_offset, done, max_pages) == done < max_pages
\* `if not page.get("has_more"): break`, `if next_offset is None: break`, and
\* the end of `range(max_pages)`.
ContinuePaging(has_more, has_next_offset, done, max_pages) ==
    has_more /\ has_next_offset /\ done < max_pages

\* After the item loop: has_more, next_offset, and the range(max_pages) bound.
EndPage ==
    /\ puoPc = "items"
    /\ itemsLeft = 0
    /\ \E has_more \in BOOLEAN, has_next_offset \in BOOLEAN :
         /\ puoPc' = IF ContinuePaging(has_more, has_next_offset, pagesDone, cfg.max_pages)
                       THEN "page" ELSE "trim"
         /\ lastPage' = IF has_more /\ has_next_offset THEN "more" ELSE "last"
    /\ lastItem' = NoItem
    /\ lastDeleted' = FALSE
    /\ UNCHANGED <<disk, dlVars, jobVars, catVars, storeVars, orchVars, seen_set, seeded_set, local_ids,
                   processed_this_run, pagesDone, itemsLeft, stats, puoExc, puoExcAt,
                   startStale, startHandled, dlFailedNow, prevFailed>>

\* `db.trim_seen(username, config.max_seen)` and the return of the statistics.
PuoTrim ==
    /\ puoPc = "trim"
    /\ seen' = TrimSeen(seen, CurUser, cfg.max_seen)
    /\ puoPc' = "returned"
    /\ UNCHANGED <<disk, dlVars, jobVars, catVars, images, artists, orchVars, seen_set, seeded_set,
                   local_ids, processed_this_run, pagesDone, itemsLeft, stats, puoExc,
                   puoExcAt, obsVars>>

\* The locals of process_user_once are gone once it has returned or raised.
PassLocalsGone ==
    /\ puoPc' = "none"
    /\ seen_set' = {}
    /\ seeded_set' = {}
    /\ local_ids' = {}
    /\ processed_this_run' = {}
    /\ pagesDone' = 0
    /\ itemsLeft' = 0
    /\ stats' = ZeroStats
    /\ puoExc' = "none"
    /\ puoExcAt' = "none"
    /\ startStale' = {}
    /\ startHandled' = {}
    /\ dlFailedNow' = {}
    /\ lastItem' = NoItem
    /\ lastPage' = "none"
    /\ lastDeleted' = FALSE
    /\ prevFailed' = [prevFailed EXCEPT ![CurUser] = dlFailedNow]

AddPassStatsNoUser(c, st) ==
    [users_checked |-> c.users_checked,
     pages_checked |-> c.pages_checked + st.pages_checked,
     new_items |-> c.new_items + st.new_items,
     downloaded |-> c.downloaded + st.downloaded,
     existing |-> c.existing + st.existing,
     skipped |-> c.skipped + st.skipped]
\* `cycle_stats["users_checked"] += 1` and the five `+= stats[...]` after it
AddPassStats(c, st) ==
    [users_checked |-> c.users_checked + 1,
     pages_checked |-> c.pages_checked + st.pages_checked,
     new_items |-> c.new_items + st.new_items,
     downloaded |-> c.downloaded + st.downloaded,
     existing |-> c.existing + st.existing,
     skipped |-> c.skipped + st.skipped]

\* The orchestrator adds the statistics of a pass that returned.
PassReturned ==
    /\ puoPc = "returned"
    /\ cycle' = AddPassStats(cycle, stats)
    /\ userIdx' = userIdx + 1
    /\ PassLocalsGone
    /\ UNCHANGED <<disk, dlVars, jobVars, catVars, storeVars, orchPc, kind, cfg, errors>>

\* The orchestrator's except clauses for a pass that raised.
PassRaised ==
    /\ puoPc = "raised"
    /\ IF OrchestratorCatches(kind, puoExc)
         THEN /\ errors' = Append(errors, [user |-> CurUser, exc |-> puoExc])
              /\ userIdx' = userIdx + 1
              /\ orchPc' = orchPc
         ELSE /\ orchPc' = "crashed"
              /\ UNCHANGED <<errors, userIdx>>
    /\ PassLocalsGone
    /\ UNCHANGED <<disk, dlVars, jobVars, catVars, storeVars, kind, cfg, cycle>>

\* After the account loop: the closing sync_images_from_filesystem.
FinishRun ==
    /\ orchPc = "loop"
    /\ puoPc = "none"
    /\ userIdx > Len(cfg.usernames)
    /\ images' = SyncImages(disk)
    /\ artists' = artists \cup SyncArtists(disk)
    /\ orchPc' = "done"
    /\ UNCHANGED <<disk, dlVars, jobVars, catVars, seen, kind, cfg, userIdx, cycle, errors,
                   puoVars, obsVars>>

\* --------------------------------------- deletions, from the web UI or by hand
\* delete_image for a relative path inside the output directory.
DeleteImage(p) ==
    /\ puoPc = "none"
    /\ disk' = [disk EXCEPT ![p] = NoFile]
    /\ images' = images \ {p}
    /\ seen' = IF p \in images THEN RemoveSeenIds(seen, p.user, {p.id}) ELSE seen
    /\ \/ Exists(disk, p)
       \/ p \in images
    /\ UNCHANGED <<artists, dlVars, jobVars, catVars, orchVars, puoVars, obsVars>>

\* delete_artist_images
DeleteArtistImages(u) ==
    /\ puoPc = "none"
    /\ IF u \notin artists
         THEN /\ disk' = [p \in Paths |-> IF p.user = u THEN NoFile ELSE disk[p]]
              /\ UNCHANGED <<images, seen>>
         ELSE /\ disk' = [p \in Paths |-> IF p \in images /\ p.user = u
                                            THEN NoFile ELSE disk[p]]
              /\ images' = {p \in images : p.user # u}
              /\ seen' = [seen EXCEPT ![u] = <<>>]
    /\ \/ seen[u] # <<>>
       \/ \E p \in Paths : p.user = u /\ Exists(disk, p)
    /\ UNCHANGED <<artists, dlVars, jobVars, catVars, orchVars, puoVars, obsVars>>

\* A file of the output tree is removed outside the program.
ExternalUnlink(p) ==
    /\ puoPc = "none"
    /\ Exists(disk, p)
    /\ disk' = [disk EXCEPT ![p] = NoFile]
    /\ UNCHANGED <<dlVars, jobVars, catVars, storeVars, orchVars, puoVars, obsVars>>

\* ------------------------- job_state.py / services.py / routes.py: the job
ReqThreads == {"r1", "r2"}
JobIds == 1..MaxJobCalls

\* default_stats() and a block with counts in it.
DefaultStats == ZeroCycle
RunStats == {DefaultStats, [DefaultStats EXCEPT !.users_checked = 1, !.downloaded = 1]}
RunErrorLists == {<<>>, <<"API error for @u1">>}
RunResults == [stats : RunStats, errors : RunErrorLists]
NoResult == [stats |-> DefaultStats, errors |-> <<>>]

\* DownloadJobState.__init__
InitialJobState ==
    [job_id |-> 0, running |-> FALSE, ok |-> "None", message |-> "",
     stats |-> DefaultStats, errors |-> <<>>, requested_usernames |-> <<>>]

LockFreeAlways(l) == TRUE
\* `with self._lock:` is entered only while no thread holds the lock
LockFree(l) == l = "none"

\* POST /api/run with a valid payload: try_start is called and takes the lock.
TryStartEnter(t) ==
    /\ reqPc[t] = "idle"
    /\ jobCalls < MaxJobCalls
    /\ LockFree(jobLock)
    /\ jobLock' = t
    /\ jobCalls' = jobCalls + 1
    /\ reqPc' = [reqPc EXCEPT ![t] = "check"]
    /\ UNCHANGED <<disk, dlVars, engineVars, catVars, jobState, reqSnap, wPc, wResult, wExc>>

\* `if bool(self._state.get("running")): return False, self._snapshot_unlocked()`
TryStartCheck(t) ==
    /\ reqPc[t] = "check"
    /\ IF jobState.running
         THEN /\ reqSnap' = [reqSnap EXCEPT ![t] = jobState]
              /\ jobLock' = "none"
              /\ reqPc' = [reqPc EXCEPT ![t] = "busy"]
         ELSE /\ reqPc' = [reqPc EXCEPT ![t] = "write"]
              /\ UNCHANGED <<jobLock, reqSnap>>
    /\ UNCHANGED <<disk, dlVars, engineVars, catVars, jobState, jobCalls, wPc, wResult, wExc>>

\* The rest of try_start: the new job's state, `return True, snapshot`.
TryStartWrite(t, usernames) ==
    /\ reqPc[t] = "write"
    /\ jobState' = [job_id |-> jobState.job_id + 1, running |-> TRUE, ok |-> "None",
                    message |-> "Download job is running.", stats |-> DefaultStats,
                    errors |-> <<>>, requested_usernames |-> usernames]
    /\ reqSnap' = [reqSnap EXCEPT ![t] = jobState']
    /\ jobLock' = "none"
    /\ reqPc' = [reqPc EXCEPT ![t] = "started"]
    /\ UNCHANGED <<disk, dlVars, engineVars, catVars, jobCalls, wPc, wResult, wExc>>

\* api_run after a successful try_start: the worker thread is started with
\* the job id of the snapshot, and the route answers 202.
StartWorker(t) ==
    /\ reqPc[t] = "started"
    /\ wPc' = [wPc EXCEPT ![reqSnap[t].job_id] = "run"]
    /\ reqPc' = [reqPc EXCEPT ![t] = "idle"]
    /\ reqSnap' = [reqSnap EXCEPT ![t] = InitialJobState]
    /\ UNCHANGED <<disk, dlVars, engineVars, catVars, jobLock, jobState, jobCalls, wResult, wExc>>

\* api_run after a rejected try_start: the route answers 409 with the snapshot.
AnswerBusy(t) ==
    /\ reqPc[t] = "busy"
    /\ reqPc' = [reqPc EXCEPT ![t] = "idle"]
    /\ reqSnap' = [reqSnap EXCEPT ![t] = InitialJobState]
    /\ UNCHANGED <<disk, dlVars, engineVars, catVars, jobLock, jobState, jobCalls, wPc, wResult, wExc>>

\* run_download_job_worker: run_download_job returns its result or raises.
WorkerRun(j) ==
    /\ wPc[j] = "run"
    /\ \/ \E r \in RunResults :
            /\ wResult' = [wResult EXCEPT ![j] = r]
            /\ wPc' = [wPc EXCEPT ![j] = "scan"]
            /\ wExc' = wExc
       \/ /\ wExc' = [wExc EXCEPT ![j] = "OperationalError"]
          /\ wPc' = [wPc EXCEPT ![j] = "except"]
          /\ wResult' = wResult
    /\ UNCHANGED <<disk, dlVars, engineVars, catVars, jobLock, jobState, jobCalls, reqPc, reqSnap>>

\* `gallery = scan_images()`
WorkerScan(j) ==
    /\ wPc[j] = "scan"
    /\ \/ /\ wPc' = [wPc EXCEPT ![j] = "finish"]
          /\ wExc' = wExc
       \/ /\ wExc' = [wExc EXCEPT ![j] = "OSError"]
          /\ wPc' = [wPc EXCEPT ![j] = "except"]
    /\ UNCHANGED <<disk, dlVars, engineVars, catVars, jobLock, jobState, jobCalls, reqPc, reqSnap,
                   wResult>>

FinishIgnoresJobId(js, job_id, ok, message, job_stats, errs) ==
    [js EXCEPT !.running = FALSE, !.ok = ok, !.message = message,
               !.stats = job_stats, !.errors = errs]
\* DownloadJobState.finish
Finish(js, job_id, ok, message, job_stats, errs) ==
    IF js.job_id # job_id THEN js
    ELSE [js EXCEPT !.running = FALSE, !.ok = ok, !.message = message,
                    !.stats = job_stats, !.errors = errs]

WorkerOkAlways(errs) == "True"
\* `ok = len(errors) == 0`
WorkerOk(errs) == IF Len(errs) = 0 THEN "True" ELSE "False"

\* The try branch ends: ok and message are computed and finish is called.
WorkerFinish(j) ==
    /\ wPc[j] = "finish"
    /\ LockFree(jobLock)
    /\ LET ok == WorkerOk(wResult[j].errors)
       IN  jobState' = Finish(jobState, j, ok,
                              IF ok = "True" THEN "Download job completed."
                              ELSE "Download job completed with errors.",
                              wResult[j].stats, wResult[j].errors)
    /\ wPc' = [wPc EXCEPT ![j] = "done"]
    /\ wResult' = [wResult EXCEPT ![j] = NoResult]
    /\ UNCHANGED <<disk, dlVars, engineVars, catVars, jobLock, jobCalls, reqPc, reqSnap, wExc>>

\* `except Exception as exc:` finish with ok=False and errors=[str(exc)].
WorkerExcept(j) ==
    /\ wPc[j] = "except"
    /\ LockFree(jobLock)
    /\ jobState' = Finish(jobState, j, "False", "Download job failed unexpectedly.",
                          DefaultStats, <<wExc[j]>>)
    /\ wPc' = [wPc EXCEPT ![j] = "done"]
    /\ wResult' = [wResult EXCEPT ![j] = NoResult]
    /\ wExc' = [wExc EXCEPT ![j] = "none"]
    /\ UNCHANGED <<disk, dlVars, engineVars, catVars, jobLock, jobCalls, reqPc, reqSnap>>

JobIdle ==
    /\ jobLock = "none"
    /\ jobState = InitialJobState
    /\ jobCalls = 0
    /\ reqPc = [t \in ReqThreads |-> "idle"]
    /\ reqSnap = [t \in ReqThreads |-> InitialJobState]
    /\ wPc = [j \in JobIds |-> "unborn"]
    /\ wResult = [j \in JobIds |-> NoResult]
    /\ wExc = [j \in JobIds |-> "none"]

\* ------------------------------------------------ tag normalisation
\* The raw tags an API answer carries.
RawTags == {"Art", "art", " Fantasy ", "fantasy", "", "  "}

\* str.strip() on the raw tags.
Strip(s) ==
    CASE s = " Fantasy " -> "Fantasy"
      [] s = "  " -> ""
      [] OTHER -> s

\* str.lower() on the stripped tags.
Lower(s) ==
    CASE s = "Art" -> "art"
      [] s = "Fantasy" -> "fantasy"
      [] OTHER -> s

\* A loop that never consults the keys it has seen.
RECURSIVE NormalizeLoopKeepsDuplicates(_, _, _)
NormalizeLoopKeepsDuplicates(values, normalized, seen_keys) ==
    IF values = <<>> THEN normalized
    ELSE LET tag == Strip(Head(values))
         IN  IF tag = ""
               THEN NormalizeLoopKeepsDuplicates(Tail(values), normalized, seen_keys)
               ELSE NormalizeLoopKeepsDuplicates(Tail(values), Append(normalized, tag),
                                                 seen_keys)

\* The loop both normalisers run: `for value in values`, with the list
\* `normalized` and the key set `seen` built so far.
RECURSIVE NormalizeLoop(_, _, _)
NormalizeLoop(values, normalized, seen_keys) ==
    IF values = <<>> THEN normalized
    ELSE LET tag == Strip(Head(values))
             key == Lower(tag)
         IN  IF tag = "" \/ key \in seen_keys
               THEN NormalizeLoop(Tail(values), normalized, seen_keys)
               ELSE NormalizeLoop(Tail(values), Append(normalized, tag),
                                  seen_keys \cup {key})

\* watcher.normalize_tags(values)
NormalizeTags(values) == NormalizeLoop(values, <<>>, {})

\* `", ".join(normalized)`
RECURSIVE Join(_)
Join(list) ==
    IF list = <<>> THEN ""
    ELSE IF Len(list) = 1 THEN list[1]
    ELSE list[1] \o ", " \o Join(Tail(list))

\* WatcherDatabase._normalize_tags(tags)
DbNormalizeTags(tag_list) ==
    IF tag_list = <<>> THEN "" ELSE Join(NormalizeLoop(tag_list, <<>>, {}))

TagCall(pc, input, list, stored) ==
    [pc |-> pc, input |-> input, list |-> list, stored |-> stored]
NoTagCall == TagCall("none", <<>>, <<>>, "")

\* No function call in hand.
NoFnCall == [fn |-> "none"]
\* A call of a function leaves everything else alone.
FnFrame == UNCHANGED <<disk, dlVars, engineVars, jobVars, meta, outside, lastOp, tagCall>>

\* The tag sequences normalised: every sequence of at most MaxTags raw tags.
TagInputs == UNION {[1..n -> RawTags] : n \in 0..MaxTags}

TagFrame == UNCHANGED <<disk, dlVars, engineVars, jobVars, meta, outside, lastOp, fnCall>>

\* extract_tags_from_deviation ends in normalize_tags(extracted).
TagsExtract ==
    /\ tagCall.pc = "input"
    /\ tagCall' = [tagCall EXCEPT !.pc = "list", !.list = NormalizeTags(tagCall.input)]
    /\ TagFrame

\* upsert_image stores _normalize_tags of the list the watcher extracted.
TagsStore ==
    /\ tagCall.pc = "list"
    /\ tagCall' = [tagCall EXCEPT !.pc = "stored", !.stored = DbNormalizeTags(tagCall.list)]
    /\ TagFrame

\* upsert_image called with raw tags stores _normalize_tags of them.
TagsStoreRaw ==
    /\ tagCall.pc = "input"
    /\ tagCall' = [tagCall EXCEPT !.pc = "stored", !.stored = DbNormalizeTags(tagCall.input)]
    /\ TagFrame

\* ------------------------------------------------------ api.py: api_get
\* The status codes and bodies an answer of the API carries.
HttpStatuses == {200, 204, 302, 399, 400, 401, 404, 429, 500}
Bodies == {"not_json", "json_list", "json_empty", "json_data", "json_error",
           "json_error_null"}

\* _parse_json: the body's dict, or {} when the body is not JSON or not a dict.
ParseJson(body) ==
    CASE body = "json_data" -> "data"
      [] body = "json_error" -> "error"
      [] body = "json_error_null" -> "error_null"
      [] OTHER -> "empty"

\* `"error" in payload`
HasErrorKey(payload) == payload \in {"error", "error_null"}

\* What a call ends with: a returned payload, or an exception with the
\* status code and payload it carries.
Returned(payload) == [kind |-> "return", exc |-> "", status_code |-> 0, payload |-> payload]
Raised(exc, status, payload) ==
    [kind |-> "raise", exc |-> exc, status_code |-> status, payload |-> payload]
NoApiResult == [kind |-> "none", exc |-> "", status_code |-> 0, payload |-> "empty"]

\* An api_get that looks at the status code alone.
ApiGetResultTrustsStatus(status, body) ==
    IF status >= 400 THEN Raised("DeviantArtApiError", status, ParseJson(body))
    ELSE Returned(ParseJson(body))

\* api_get once the response is there: `if response.status_code >= 400`,
\* `if "error" in payload`, `return payload`.
ApiGetResult(status, body) ==
    LET payload == ParseJson(body)
    IN  IF status >= 400 THEN Raised("DeviantArtApiError", status, payload)
        ELSE IF HasErrorKey(payload) THEN Raised("DeviantArtApiError", status, payload)
        ELSE Returned(payload)

\* The token when api_get is called: still valid, refreshed, refused by the
\* token endpoint, or the token endpoint cannot be reached.
TokenFates == {"valid", "refreshed", "refused", "unreachable"}
\* The GET itself: an answer, or no connection.
Transports == {"response", "ConnectionError"}

ApiCalls ==
    [fn : {"api_get"}, pc : {"call"}, token : TokenFates, transport : Transports,
     status : HttpStatuses, body : Bodies, result : {NoApiResult}]

\* `self._ensure_token()`
ApiEnsureToken ==
    /\ fnCall.fn = "api_get"
    /\ fnCall.pc = "call"
    /\ fnCall' =
         CASE fnCall.token = "refused" ->
                [fnCall EXCEPT !.pc = "done",
                               !.result = Raised("DeviantArtApiError", 401, "error")]
           [] fnCall.token = "unreachable" ->
                [fnCall EXCEPT !.pc = "done",
                               !.result = Raised("ConnectionError", 0, "empty")]
           [] OTHER -> [fnCall EXCEPT !.pc = "get"]
    /\ FnFrame

\* `self.session.get(...)` and the rest of api_get.
ApiGet ==
    /\ fnCall.fn = "api_get"
    /\ fnCall.pc = "get"
    /\ fnCall' =
         IF fnCall.transport = "ConnectionError"
           THEN [fnCall EXCEPT !.pc = "done",
                               !.result = Raised("ConnectionError", 0, "empty")]
           ELSE [fnCall EXCEPT !.pc = "done",
                               !.result = ApiGetResult(fnCall.status, fnCall.body)]
    /\ FnFrame

\* ------------------------ storage.py: file names, character by character
\* The characters names are written with here: a letter, the separator "_",
\* a path separator (one of INVALID_FILE_CHARS), a blank and a dot.
NameChars == {"a", "_", "/", " ", "."}
Texts == UNION {[1..n -> NameChars] : n \in 0..MaxNameLen}

\* INVALID_FILE_CHARS, as far as NameChars has them.
InvalidFileChars == {"/"}

\* `INVALID_FILE_CHARS.sub("_", name)`
SubInvalid(s) ==
    [k \in 1..Len(s) |-> IF s[k] \in InvalidFileChars THEN "_" ELSE s[k]]

RECURSIVE LStrip(_, _)
LStrip(s, cs) == IF s # <<>> /\ Head(s) \in cs THEN LStrip(Tail(s), cs) ELSE s
RECURSIVE RStrip(_, _)
RStrip(s, cs) ==
    IF s # <<>> /\ s[Len(s)] \in cs THEN RStrip(SubSeq(s, 1, Len(s) - 1), cs) ELSE s
\* str.strip(): the characters of cs are taken off both ends.
StripChars(s, cs) == RStrip(LStrip(s, cs), cs)

\* `re.sub(r"\s+", " ", cleaned)`
RECURSIVE CollapseSpaces(_)
CollapseSpaces(s) ==
    IF Len(s) < 2 THEN s
    ELSE IF s[1] = " " /\ s[2] = " " THEN CollapseSpaces(Tail(s))
    ELSE <<s[1]>> \o CollapseSpaces(Tail(s))

\* `cleaned[:120]`
StemMax == 120
Truncate(s) == IF Len(s) <= StemMax THEN s ELSE SubSeq(s, 1, StemMax)

\* The default of sanitize_filename's fallback parameter.
DefaultFallback == <<"d", "e", "v", "i", "a", "t", "i", "o", "n">>

\* sanitize_filename(name, fallback)
SanitizeFilename(name, fallback) ==
    LET cleaned == CollapseSpaces(StripChars(StripChars(SubInvalid(name), {" "}), {"."}))
    IN  Truncate(IF cleaned = <<>> THEN fallback ELSE cleaned)

\* The extension of preferred_filename or of the url's path, lower-cased:
\* none, or ".png"; and the fallback ".jpg".
PngExt == <<".", "p", "n", "g">>
JpgExt == <<".", "j", "p", "g">>
ExtInputs == {<<>>, PngExt}

\* `if not ext: ext = extension_from_url(source_url)`, `if not ext: ext = ".jpg"`
ResolveExt(pref_ext, url_ext) ==
    IF pref_ext # <<>> THEN pref_ext ELSE IF url_ext # <<>> THEN url_ext ELSE JpgExt

\* `stem or title or deviation_id`
StemSource(stem, title, deviation_id) ==
    IF stem # <<>> THEN stem ELSE IF title # <<>> THEN title ELSE deviation_id

\* build_output_path: `f"{deviation_id}_{safe_stem}{ext}"`
OutputFileName(deviation_id, title, pref_stem, pref_ext, url_ext) ==
    deviation_id \o <<"_">>
      \o SanitizeFilename(StemSource(pref_stem, title, deviation_id), DefaultFallback)
      \o ResolveExt(pref_ext, url_ext)

\* `path.name.find("_")`, counting the first character as 1; 0 without one.
FirstSep(name) ==
    IF \E k \in 1..Len(name) : name[k] = "_"
      THEN CHOOSE k \in 1..Len(name) :
             name[k] = "_" /\ \A j \in 1..(k - 1) : name[j] # "_"
      ELSE 0

\* `path.stem`: the name without its last suffix.
PathStem(name) ==
    LET dots == {k \in 2..Len(name) : name[k] = "."}
    IN  IF dots = {} THEN name
        ELSE SubSeq(name, 1, (CHOOSE k \in dots : \A j \in dots : j <= k) - 1)

\* The files directly in the account's directory once download_file has
\* written user_dir / filename: the file itself, or none when the name has
\* a path separator (its directory does not exist, and nothing is written).
DirectFiles(filename) ==
    IF \E k \in 1..Len(filename) : filename[k] = "/" THEN {} ELSE {filename}

\* collect_local_deviation_ids, for one file: `if separator_index <= 0:
\* continue`, `ids.add(path.name[:separator_index])`.
LocalIdOfName(name) ==
    IF FirstSep(name) <= 1 THEN {} ELSE {SubSeq(name, 1, FirstSep(name) - 1)}

\* collect_local_deviation_ids over the files of the directory.
LocalIdsOfNames(names) == UNION {LocalIdOfName(n) : n \in names}

\* sync_images_from_filesystem: `path.name[:separator_index] if
\* separator_index > 0 else path.stem`
SyncDeviationId(name) ==
    IF FirstSep(name) > 1 THEN SubSeq(name, 1, FirstSep(name) - 1) ELSE PathStem(name)

\* The ids process_user_once passes on: `str(...).strip()`, not empty.
IdInputs == {s \in Texts : s # <<>> /\ StripChars(s, {" "}) = s}

\* preferred_filename: none, a name without a suffix, a name with one.
PrefInputs == {<<<<>>, <<>>>>, <<<<"a">>, <<>>>>, <<<<"a">>, PngExt>>}

NameCalls ==
    {[fn |-> "build_output_path", pc |-> "call", deviation_id |-> id, title |-> t,
      pref_stem |-> pf[1], pref_ext |-> pf[2], url_ext |-> ue, filename |-> <<>>,
      local_ids |-> {}, sync_ids |-> {}] :
        id \in IdInputs, t \in Texts, pf \in PrefInputs, ue \in ExtInputs}

\* build_output_path(output_dir, username, deviation_id, title, source_url,
\* preferred_filename)
NameBuild ==
    /\ fnCall.fn = "build_output_path"
    /\ fnCall.pc = "call"
    /\ fnCall' = [fnCall EXCEPT !.pc = "built",
                                !.filename = OutputFileName(fnCall.deviation_id, fnCall.title,
                                                            fnCall.pref_stem, fnCall.pref_ext,
                                                            fnCall.url_ext)]
    /\ FnFrame

\* The next run, after the download to that path: the ids
\* collect_local_deviation_ids and sync_images_from_filesystem read back.
NameCollect ==
    /\ fnCall.fn = "build_output_path"
    /\ fnCall.pc = "built"
    /\ fnCall' = [fnCall EXCEPT !.pc = "collected",
                                !.local_ids = LocalIdsOfNames(DirectFiles(fnCall.filename)),
                                !.sync_ids = {SyncDeviationId(n) :
                                                n \in DirectFiles(fnCall.filename)}]
    /\ FnFrame

\* ----------------------------- watcher.py: the page window of a pass
Min(a, b) == IF a <= b THEN a ELSE b
Max(a, b) == IF a >= b THEN a ELSE b

\* An Optional[int] argument: <<>> is None, <<n>> is n.
None == <<>>
Some(n) == <<n>>

\* The integers passed as start_page and end_page, as page_size and
\* config.limit (both sides of 1 and of 24), and as config.pages.
PageArgs == (0 - 1)..MaxPageArg
SizeArgs == {0 - 1, 0, 1, 24, 25}
LimitArgs == {1, 24}
PagesArgs == {1, 2}

EffectiveLimitUnclamped(page_size, limit) ==
    IF page_size # None THEN page_size[1] ELSE limit
\* `effective_limit = page_size if page_size is not None else config.limit`,
\* `effective_limit = max(1, min(24, int(effective_limit)))`
EffectiveLimit(page_size, limit) ==
    Max(1, Min(24, IF page_size # None THEN page_size[1] ELSE limit))

\* `normalized_start_page = max(1, int(start_page))`
NormalizedStartPage(start_page) == Max(1, start_page)

\* `if end_page is None: ... + max(1, config.pages) - 1`, else
\* `max(normalized_start_page, int(end_page))`
NormalizedEndPage(start, end_page, pages) ==
    IF end_page = None THEN start + Max(1, pages) - 1 ELSE Max(start, end_page[1])

\* `max_pages = normalized_end_page - normalized_start_page + 1`
WindowMaxPages(start, end) == end - start + 1

\* `offset = (normalized_start_page - 1) * effective_limit`
FirstOffset(start, limit) == (start - 1) * limit

\* A fetch_gallery_page call as the API client receives it.
NoFetch == [offset |-> 0 - 1, limit |-> 0 - 1]

WindowCalls ==
    {[fn |-> "page_window", pc |-> "call", start_page |-> sp, end_page |-> ep,
      page_size |-> ps, limit |-> lim, pages |-> pg, effective_limit |-> 0,
      start |-> 0, end |-> 0, max_pages |-> 0, offset |-> 0, pages_checked |-> 0,
      first |-> NoFetch, sent |-> NoFetch] :
        sp \in PageArgs, ep \in {None} \cup {Some(n) : n \in PageArgs},
        ps \in {None} \cup {Some(n) : n \in SizeArgs}, lim \in LimitArgs,
        pg \in PagesArgs}

\* process_user_once up to its page loop: the window and the first offset.
WindowNormalize ==
    /\ fnCall.fn = "page_window"
    /\ fnCall.pc = "call"
    /\ LET lim == EffectiveLimit(fnCall.page_size, fnCall.limit)
           start == NormalizedStartPage(fnCall.start_page)
           end == NormalizedEndPage(start, fnCall.end_page, fnCall.pages)
       IN  fnCall' = [fnCall EXCEPT !.pc = "loop", !.effective_limit = lim,
                                    !.start = start, !.end = end,
                                    !.max_pages = WindowMaxPages(start, end),
                                    !.offset = FirstOffset(start, lim)]
    /\ FnFrame

\* One turn of `for _ in range(max_pages)`: the fetch, then has_more and
\* next_offset (`offset = int(next_offset)`), or an exception of the fetch.
WindowFetch ==
    /\ fnCall.fn = "page_window"
    /\ fnCall.pc = "loop"
    /\ fnCall.pages_checked < fnCall.max_pages
    /\ LET call == [offset |-> fnCall.offset, limit |-> fnCall.effective_limit]
       IN  \E after \in {"more", "last", "raised"} :
             fnCall' = [fnCall EXCEPT
                          !.pages_checked = @ + 1,
                          !.sent = call,
                          !.first = IF fnCall.pages_checked = 0 THEN call ELSE @,
                          !.offset = IF after = "more" THEN @ + fnCall.effective_limit ELSE @,
                          !.pc = IF after = "more" THEN "loop"
                                 ELSE IF after = "last" THEN "done" ELSE "raised"]
    /\ FnFrame

\* range(max_pages) is used up.
WindowEnd ==
    /\ fnCall.fn = "page_window"
    /\ fnCall.pc = "loop"
    /\ fnCall.pages_checked >= fnCall.max_pages
    /\ fnCall' = [fnCall EXCEPT !.pc = "done"]
    /\ FnFrame

\* --------------------------------- api.py: the bearer token of a call
\* Seconds of validity left on the held token when api_get is called, both
\* sides of the 60 second margin, and the lifetimes a token endpoint grants.
RemainingArgs == {0 - 5, 0, 59, 60, 61, 3600}
ExpiresInArgs == {0, 30, 60, 61, 3600}

\* The token endpoint: it issues a token, answers with a status >= 400,
\* answers without an access_token, answers with an expires_in that is not a
\* number, or cannot be reached.
TokenEndpoints == {"issued", "refused", "no_access_token", "bad_expires_in", "unreachable"}

\* `if self.token and self.token.expires_at - time.time() > 60: return`
TokenStillGood(held, remaining) == held /\ remaining > 60

\* _request_token: the exception it ends with, or "none" for a new token.
RequestTokenRaises(endpoint) ==
    CASE endpoint = "unreachable" -> "ConnectionError"
      [] endpoint \in {"refused", "no_access_token"} -> "DeviantArtApiError"
      [] endpoint = "bad_expires_in" -> "ValueError"
      [] OTHER -> "none"

TokenCalls ==
    {[fn |-> "ensure_token", pc |-> "call", held |-> h, remaining |-> r,
      endpoint |-> e, expires_in |-> x, posted |-> FALSE, sent |-> FALSE,
      validity |-> 0, exc |-> "none"] :
        h \in BOOLEAN, r \in RemainingArgs, e \in TokenEndpoints, x \in ExpiresInArgs}

\* _ensure_token up to its decision: keep the token or ask for a new one.
TokenEnsure ==
    /\ fnCall.fn = "ensure_token"
    /\ fnCall.pc = "call"
    /\ fnCall' = IF TokenStillGood(fnCall.held, fnCall.remaining)
                   THEN [fnCall EXCEPT !.pc = "get", !.validity = fnCall.remaining]
                   ELSE [fnCall EXCEPT !.pc = "post"]
    /\ FnFrame

\* `self.token = self._request_token()`
TokenPost ==
    /\ fnCall.fn = "ensure_token"
    /\ fnCall.pc = "post"
    /\ LET exc == RequestTokenRaises(fnCall.endpoint)
       IN  fnCall' = IF exc = "none"
                       THEN [fnCall EXCEPT !.pc = "get", !.posted = TRUE, !.held = TRUE,
                                           !.remaining = fnCall.expires_in,
                                           !.validity = fnCall.expires_in]
                       ELSE [fnCall EXCEPT !.pc = "done", !.posted = TRUE, !.exc = exc]
    /\ FnFrame

\* `self.session.get(..., headers={"Authorization": ...})`
TokenSend ==
    /\ fnCall.fn = "ensure_token"
    /\ fnCall.pc = "get"
    /\ fnCall' = [fnCall EXCEPT !.pc = "done", !.sent = TRUE]
    /\ FnFrame

\* ------------------------------- web_app.py: run_lock around the routes

\* Request threads of the standalone server and the routes that take run_lock.
WebThreads == {"w1", "w2", "w3"}
LockedRoutes == {"api_run", "api_delete_image", "api_delete_artist"}

\* What the body of a route ends with: a response, or an exception raised
\* by build_runtime_config, run_download_job, a DATABASE call or scan_images.
\* Only the delete routes answer 404.
BodyOutcomes(route) ==
    IF route = "api_run" THEN {"200", "raised"} ELSE {"200", "404", "raised"}

WebIdle ==
    [fn |-> "web_app", run_lock |-> "none",
     pc |-> [t \in WebThreads |-> "idle"],
     route |-> [t \in WebThreads |-> "none"],
     status |-> [t \in WebThreads |-> "none"]]

RunLockAcquiredAlways(l) == TRUE
\* `run_lock.acquire(blocking=False)` returns True only on an unlocked lock
RunLockAcquired(l) == l = "none"

\* A request whose payload passed the validation reaches the acquire.
WebArrive(t, route) ==
    /\ fnCall.fn = "web_app"
    /\ fnCall.pc[t] = "idle"
    /\ fnCall' = [fnCall EXCEPT !.pc[t] = "acquire", !.route[t] = route, !.status[t] = "none"]
    /\ FnFrame

\* `if not run_lock.acquire(blocking=False): return ..., 409`
WebAcquire(t) ==
    /\ fnCall.fn = "web_app"
    /\ fnCall.pc[t] = "acquire"
    /\ IF RunLockAcquired(fnCall.run_lock)
         THEN fnCall' = [fnCall EXCEPT !.run_lock = t, !.pc[t] = "body"]
         ELSE fnCall' = [fnCall EXCEPT !.pc[t] = "idle", !.status[t] = "409"]
    /\ FnFrame

\* The `try:` block of the route runs to a return or to an exception.
WebBody(t) ==
    /\ fnCall.fn = "web_app"
    /\ fnCall.pc[t] = "body"
    /\ \E outcome \in BodyOutcomes(fnCall.route[t]) :
          fnCall' = [fnCall EXCEPT !.pc[t] = "finally", !.status[t] = outcome]
    /\ FnFrame

\* `finally: run_lock.release()`, and the request ends.
WebRelease(t) ==
    /\ fnCall.fn = "web_app"
    /\ fnCall.pc[t] = "finally"
    /\ fnCall' = [fnCall EXCEPT !.run_lock = "none", !.pc[t] = "idle"]
    /\ FnFrame

\* --------------------- database.py: the store, one operation at a time
\* What lastOp records: the operation, its account and path arguments (a
\* relative path is its sequence of segments), its integer argument and
\* what it returned.
Op(op, user, path, n, result) ==
    [op |-> op, user |-> user, path |-> path, n |-> n, result |-> result]
NoOp == Op("none", "", <<>>, 0, "")

\* The values passed as max_seen.
TrimArgs == (0 - 1)..MaxTrimArg

NoMeta == [title |-> "", tags |-> "", favorite |-> FALSE]

\* Everything outside the store and the catalog is left alone.
StoreFrame == UNCHANGED <<dlVars, orchVars, puoVars, obsVars, jobVars, tagCall, fnCall>>

\* upsert_seen(username, deviation_id, seeded)
StoreUpsertSeen(u, id, seeded) ==
    /\ seen' = UpsertSeen(seen, u, id, seeded)
    /\ artists' = artists \cup {u}
    /\ lastOp' = Op("upsert_seen", u, <<>>, 0, "")
    /\ UNCHANGED <<disk, images, meta, outside>>
    /\ StoreFrame

\* remove_seen_ids(username, [deviation_id])
StoreRemoveSeen(u, id) ==
    /\ id \in GetSeenIds(seen, u)
    /\ seen' = RemoveSeenIds(seen, u, {id})
    /\ lastOp' = Op("remove_seen_ids", u, <<>>, 0, "")
    /\ UNCHANGED <<disk, images, artists, meta, outside>>
    /\ StoreFrame

\* trim_seen(username, max_seen)
StoreTrimSeen(u, n) ==
    /\ seen' = TrimSeen(seen, u, n)
    /\ lastOp' = Op("trim_seen", u, <<>>, n, "")
    /\ UNCHANGED <<disk, images, artists, meta, outside>>
    /\ StoreFrame

\* What the legacy state file can be: missing, unreadable, text that is
\* not JSON, bytes that are not UTF-8, JSON that is not an object, an object
\* without a "users" object, or LegacyState.
StateFiles == {"missing", "unreadable", "not_json", "not_utf8", "not_dict",
               "no_users", "state"}

\* `json.loads(state_json_path.read_text(encoding="utf-8"))`: what it raises.
ReadStateRaises(file) ==
    CASE file = "unreadable" -> "OSError"
      [] file = "not_json" -> "JSONDecodeError"
      [] file = "not_utf8" -> "UnicodeDecodeError"
      [] OTHER -> "none"

\* `except (json.JSONDecodeError, OSError)`
ReadFailureCaught(exc) == exc \in {"JSONDecodeError", "OSError"}

\* The rows migrate_from_state_json upserts for LegacyState.
MigratedRowCount ==
    LET RECURSIVE Sum(_)
        Sum(us) == IF us = {} THEN 0
                   ELSE LET u == CHOOSE v \in us : TRUE
                        IN  Len(LegacyState[u].seen_ids) + Sum(us \ {u})
    IN  Sum(Users)

\* migrate_from_state_json(state_json_path)
StoreMigrate(file) ==
    LET exc == ReadStateRaises(file)
    IN  /\ IF file = "state"
             THEN /\ seen' = MigrateFromStateJson(seen, "state")
                  /\ artists' = artists \cup MigratedArtists("state")
                  /\ lastOp' = Op("migrate_from_state_json", "", <<file>>,
                                  MigratedRowCount, "returned")
             ELSE /\ lastOp' = Op("migrate_from_state_json", "", <<file>>, 0,
                                  IF exc = "none" \/ ReadFailureCaught(exc)
                                    THEN "returned" ELSE exc)
                  /\ UNCHANGED <<seen, artists>>
        /\ UNCHANGED <<disk, images, meta, outside>>
        /\ StoreFrame

\* The name build_output_path gives the file of an item, and that name with
\* ".part" appended.
FileName(p) ==
    IF p.id = "d1" THEN (IF p.part THEN "d1_a.jpg.part" ELSE "d1_a.jpg")
    ELSE (IF p.part THEN "d2_b.jpg.part" ELSE "d2_b.jpg")

\* `file_path.relative_to(output_dir).as_posix()`, segment by segment.
RelativePath(p) == <<p.user, FileName(p)>>

\* The resolved output directory, and a file that lies next to it.
OutputDir == <<"downloads">>
OutsideFile == <<"secret.jpg">>

\* The files that come and go in the store and catalog specifications.
StoreFiles == {q \in Paths : q.user = "u1" /\ (q.id = "d1" \/ ~q.part)}

\* The relative paths handed to delete_image.
RelPaths ==
    {RelativePath(p) : p \in StoreFiles}
      \cup {<<"..", "secret.jpg">>, <<"u1", "..", "..", "secret.jpg">>,
            <<"u1", "..", "u1", "d1_a.jpg">>}

\* `(output_dir / cleaned_relative_path).resolve()`: ".." climbs one level.
RECURSIVE Resolve(_, _)
Resolve(at, segs) ==
    IF segs = <<>> THEN at
    ELSE IF Head(segs) = ".."
      THEN Resolve(IF at = <<>> THEN at ELSE SubSeq(at, 1, Len(at) - 1), Tail(segs))
      ELSE Resolve(Append(at, Head(segs)), Tail(segs))

ResolvesInsideAlways(target) == TRUE
\* `base_path in target_path.parents or target_path == base_path`
ResolvesInside(target) ==
    Len(target) >= Len(OutputDir) /\ SubSeq(target, 1, Len(OutputDir)) = OutputDir

\* A file appears in the output tree: a finished download, a ".part" file
\* left by a killed process, or a file put there by hand.
StorePutFile(p) ==
    /\ ~Exists(disk, p)
    /\ disk' = [disk EXCEPT ![p] = IF p.part THEN [url |-> "orig", len |-> 1]
                                   ELSE FullBody("orig")]
    /\ lastOp' = Op("put_file", p.user, RelativePath(p), 0, "")
    /\ UNCHANGED <<seen, images, artists, meta, outside>>
    /\ StoreFrame

DeleteSeenOfRowSkipped(s, artist, deviation_id) == s
\* `DELETE FROM seen_deviations WHERE artist_id = ? AND deviation_id = ?`,
\* run when the catalog row gave an artist and a deviation id.
DeleteSeenOfRow(s, artist, deviation_id) ==
    [s EXCEPT ![artist] = SelectSeq(s[artist], LAMBDA r : r.id # deviation_id)]

\* delete_image(relative_path, output_dir)
StoreDeleteImage(rel) ==
    LET target == Resolve(OutputDir, rel)
    IN  IF ~ResolvesInside(target)
          THEN /\ lastOp' = Op("delete_image", "", rel, 0, "invalid")
               /\ UNCHANGED <<disk, seen, images, artists, meta, outside>>
               /\ StoreFrame
          ELSE LET hit == {p \in Paths : OutputDir \o RelativePath(p) = target
                                          /\ Exists(disk, p)}
                   outHit == target = OutsideFile /\ outside
                   rows == {p \in images : RelativePath(p) = rel}
                   artist == IF rows = {} THEN "" ELSE (CHOOSE p \in rows : TRUE).user
               IN  /\ disk' = [p \in Paths |-> IF p \in hit THEN NoFile ELSE disk[p]]
                   /\ outside' = (outside /\ ~outHit)
                   /\ images' = images \ rows
                   /\ meta' = [p \in DestPaths |-> IF p \in rows THEN NoMeta ELSE meta[p]]
                   /\ seen' = IF rows = {} THEN seen
                              ELSE DeleteSeenOfRow(seen, artist,
                                                   (CHOOSE p \in rows : TRUE).id)
                   /\ lastOp' = Op("delete_image", artist, rel, 0,
                                   IF hit # {} \/ outHit \/ rows # {}
                                     THEN "deleted" ELSE "not_found")
                   /\ UNCHANGED artists
                   /\ StoreFrame

\* delete_artist_images(username, output_dir): the fallback without an artist
\* row, else the catalogued files and the rows; then the directory is
\* removed, which raises when a file is still in it.
StoreDeleteArtist(u) ==
    LET rows == {p \in images : p.user = u}
        mine == {p \in Paths : p.user = u /\ Exists(disk, p)}
    IN  IF u \notin artists
          THEN /\ disk' = [p \in Paths |-> IF p \in mine THEN NoFile ELSE disk[p]]
               /\ lastOp' = Op("delete_artist_images", u, <<>>, Cardinality(mine),
                               IF mine # {} THEN "deleted" ELSE "not_found")
               /\ UNCHANGED <<seen, images, artists, meta, outside>>
               /\ StoreFrame
          ELSE LET gone == rows \cap mine
                   left == mine \ rows
               IN  /\ disk' = [p \in Paths |-> IF p \in gone THEN NoFile ELSE disk[p]]
                   /\ images' = images \ rows
                   /\ meta' = [p \in DestPaths |-> IF p \in rows THEN NoMeta ELSE meta[p]]
                   /\ seen' = [seen EXCEPT ![u] = <<>>]
                   /\ lastOp' = Op("delete_artist_images", u, <<>>, Cardinality(gone),
                                   IF left # {} THEN "OSError"
                                   ELSE IF gone # {} THEN "deleted" ELSE "not_found")
                   /\ UNCHANGED <<artists, outside>>
                   /\ StoreFrame

\* ------------------------------------------- the catalog's metadata
\* `path.stem[separator_index + 1:]`: the title inferred from a file name.
InferredTitle(p) == IF p.id = "d1" THEN "a" ELSE "b"

\* The titles and tag sequences handed to upsert_image.
TitleArgs == {"", "  ", "Sunset"}
TagArgs == {<<>>, <<"Art", "art", " Fantasy ">>}

\* `image_title.strip()`
StripTitle(title) == IF title = "  " THEN "" ELSE title

\* An upsert that writes the default flag over the stored one.
UpsertImageMetaResetsFavorite(m, existed, p, title, tag_list) ==
    [m EXCEPT ![p] = [title |-> IF StripTitle(title) = "" THEN InferredTitle(p)
                                ELSE StripTitle(title),
                      tags |-> DbNormalizeTags(tag_list),
                      favorite |-> FALSE]]

\* The row upsert_image writes: the given title or the one inferred from the
\* file name, the normalised tags, `is_favorite = images.is_favorite` on
\* conflict and 0 on insert.
UpsertImageMeta(m, existed, p, title, tag_list) ==
    [m EXCEPT ![p] = [title |-> IF StripTitle(title) = "" THEN InferredTitle(p)
                                ELSE StripTitle(title),
                      tags |-> DbNormalizeTags(tag_list),
                      favorite |-> IF existed THEN m[p].favorite ELSE FALSE]]

\* A sync that writes the inferred values over the stored ones.
SyncMetaOverwrites(m, rows, d) ==
    [p \in DestPaths |->
        IF ~Exists(d, p) THEN NoMeta
        ELSE [title |-> InferredTitle(p), tags |-> "",
              favorite |-> IF p \in rows THEN m[p].favorite ELSE FALSE]]

\* The rows after sync_images_from_filesystem: none for a path not
\* discovered; for a discovered path with a row, title and tags are filled
\* only `WHEN images.image_title = ''` / `WHEN images.tags = ''` and
\* is_favorite is kept; for a discovered path without a row, the inferred
\* title, no tags and is_favorite 0.
SyncMeta(m, rows, d) ==
    [p \in DestPaths |->
        IF ~Exists(d, p) THEN NoMeta
        ELSE IF p \in rows
          THEN [title |-> IF m[p].title = "" THEN InferredTitle(p) ELSE m[p].title,
                tags |-> IF m[p].tags = "" THEN "" ELSE m[p].tags,
                favorite |-> m[p].favorite]
          ELSE [title |-> InferredTitle(p), tags |-> "", favorite |-> FALSE]]

\* sync_images_from_filesystem(output_dir, IMAGE_EXTENSIONS)
StoreSync ==
    /\ images' = SyncImages(disk)
    /\ artists' = artists \cup SyncArtists(disk)
    /\ meta' = SyncMeta(meta, images, disk)
    /\ lastOp' = Op("sync_images_from_filesystem", "", <<>>,
                    Cardinality(SyncImages(disk)), "")
    /\ UNCHANGED <<disk, seen, outside>>
    /\ StoreFrame

\* upsert_image(username, deviation_id, file_path, output_dir, title, tags)
CatUpsertImage(p, title, tag_list) ==
    /\ IF ~Exists(disk, p)
         THEN /\ lastOp' = Op("upsert_image", p.user, RelativePath(p), 0, "no_file")
              /\ UNCHANGED <<images, artists, meta>>
         ELSE /\ images' = images \cup {p}
              /\ artists' = artists \cup {p.user}
              /\ meta' = UpsertImageMeta(meta, p \in images, p, title, tag_list)
              /\ lastOp' = Op("upsert_image", p.user, RelativePath(p), 0, "")
    /\ UNCHANGED <<disk, seen, outside>>
    /\ StoreFrame

\* set_image_favorite(relative_path, is_favorite)
CatSetFavorite(p, fav) ==
    /\ IF p \in images
         THEN /\ meta' = [meta EXCEPT ![p].favorite = fav]
              /\ lastOp' = Op("set_image_favorite", "", RelativePath(p),
                              IF fav THEN 1 ELSE 0, "updated")
         ELSE /\ lastOp' = Op("set_image_favorite", "", RelativePath(p),
                              IF fav THEN 1 ELSE 0, "not_found")
              /\ UNCHANGED meta
    /\ UNCHANGED <<disk, seen, images, artists, outside>>
    /\ StoreFrame

\* A file of the output tree is removed by hand.
StoreUnlinkFile(p) ==
    /\ Exists(disk, p)
    /\ disk' = [disk EXCEPT ![p] = NoFile]
    /\ lastOp' = Op("unlink_file", p.user, RelativePath(p), 0, "")
    /\ UNCHANGED <<seen, images, artists, meta, outside>>
    /\ StoreFrame

\* ------------------------- database.py: one transaction per operation
\* The rows of the database, and what get_gallery_data selects from them.
Catalog(im, m, s, ar) == [images |-> im, meta |-> m, seen |-> s, artists |-> ar]
Committed == Catalog(images, meta, seen, artists)
EmptyCatalog == Catalog({}, [p \in DestPaths |-> NoMeta], [u \in Users |-> <<>>], {})
GalleryData(cat) == [images |-> cat.images, meta |-> cat.meta]

\* The operations that write more than one row, with their arguments.
TxnOps ==
    {[op |-> "sync_images_from_filesystem", user |-> "", path |-> {}]}
      \cup {[op |-> "delete_image", user |-> "", path |-> {q}] :
              q \in {r \in StoreFiles : ~r.part}}
      \cup {[op |-> "delete_artist_images", user |-> "u1", path |-> {}]}

\* The first statements of the `with self._connect() as connection:` block:
\* `DELETE FROM images WHERE relative_path IN (missing_paths)`,
\* `DELETE FROM images WHERE relative_path = ?`,
\* `DELETE FROM images WHERE artist_id = ?`.
FirstStatement(call, cat, d) ==
    LET gone == CASE call.op = "sync_images_from_filesystem" -> cat.images \ SyncImages(d)
                  [] call.op = "delete_image" -> cat.images \cap call.path
                  [] OTHER -> {q \in cat.images : q.user = call.user}
    IN  [cat EXCEPT !.images = @ \ gone,
                    !.meta = [q \in DestPaths |-> IF q \in gone THEN NoMeta ELSE @[q]]]

\* The statements that follow, on the rows the first left: the upserts of
\* the discovered paths, or the DELETE FROM seen_deviations.
LastStatement(call, pre, cat, d) ==
    CASE call.op = "sync_images_from_filesystem" ->
           [cat EXCEPT !.images = SyncImages(d),
                       !.meta = SyncMeta(pre.meta, pre.images, d),
                       !.artists = @ \cup SyncArtists(d)]
      [] call.op = "delete_image" ->
           IF pre.images \cap call.path = {} THEN cat
           ELSE LET row == CHOOSE q \in call.path : TRUE
                IN  [cat EXCEPT !.seen = DeleteSeenOfRow(@, row.user, row.id)]
      [] OTHER -> [cat EXCEPT !.seen = [@ EXCEPT ![call.user] = <<>>]]

\* The files an operation removes before or between its statements.
TxnUnlinks(call, cat) ==
    CASE call.op = "delete_image" -> call.path
      [] call.op = "delete_artist_images" -> {q \in cat.images : q.user = call.user}
      [] OTHER -> {}

VisibleUncommitted(committed, work) == work
\* What another connection reads while a transaction is open: the rows as
\* last committed.
Visible(committed, work) == committed

NoTxn ==
    [fn |-> "txn", pc |-> "idle", call |-> [op |-> "none", user |-> "", path |-> {}],
     pre |-> EmptyCatalog, work |-> EmptyCatalog, post |-> EmptyCatalog,
     read |-> GalleryData(EmptyCatalog), readPc |-> "none"]

TxnFrame == UNCHANGED <<dlVars, orchVars, puoVars, obsVars, jobVars, outside, lastOp, tagCall>>

\* An operation is called: files it removes first are removed, and its
\* connection is opened.
TxnBegin(call) ==
    /\ fnCall.fn = "txn"
    /\ fnCall.pc = "idle"
    /\ LET d == [q \in Paths |-> IF q \in TxnUnlinks(call, Committed) THEN NoFile
                                 ELSE disk[q]]
       IN  /\ disk' = d
           /\ fnCall' = [fnCall EXCEPT
                           !.pc = "open", !.call = call, !.pre = Committed,
                           !.work = Committed,
                           !.post = LastStatement(call, Committed,
                                                  FirstStatement(call, Committed, d), d),
                           !.read = GalleryData(EmptyCatalog), !.readPc = "none"]
    /\ UNCHANGED <<seen, images, artists, meta>>
    /\ TxnFrame

\* The first statement runs on the connection.
TxnFirst ==
    /\ fnCall.fn = "txn"
    /\ fnCall.pc = "open"
    /\ fnCall' = [fnCall EXCEPT !.pc = "first",
                                !.work = FirstStatement(fnCall.call, fnCall.work, disk)]
    /\ UNCHANGED <<disk, seen, images, artists, meta>>
    /\ TxnFrame

\* The remaining statements run on the connection.
TxnLast ==
    /\ fnCall.fn = "txn"
    /\ fnCall.pc = "first"
    /\ fnCall' = [fnCall EXCEPT !.pc = "last",
                                !.work = LastStatement(fnCall.call, fnCall.pre,
                                                       fnCall.work, disk)]
    /\ UNCHANGED <<disk, seen, images, artists, meta>>
    /\ TxnFrame

\* The `with` block ends: the connection commits.
TxnCommit ==
    /\ fnCall.fn = "txn"
    /\ fnCall.pc = "last"
    /\ images' = fnCall.work.images
    /\ meta' = fnCall.work.meta
    /\ seen' = fnCall.work.seen
    /\ artists' = fnCall.work.artists
    /\ fnCall' = [fnCall EXCEPT !.pc = "idle"]
    /\ UNCHANGED disk
    /\ TxnFrame

\* A statement raises inside the `with` block: the connection rolls back.
TxnRollback ==
    /\ fnCall.fn = "txn"
    /\ fnCall.pc \in {"open", "first", "last"}
    /\ fnCall' = [fnCall EXCEPT !.pc = "idle", !.post = fnCall.pre]
    /\ UNCHANGED <<disk, seen, images, artists, meta>>
    /\ TxnFrame

\* get_gallery_data on a connection of its own, at any moment.
TxnRead ==
    /\ fnCall.fn = "txn"
    /\ fnCall.pc # "idle"
    /\ fnCall' = [fnCall EXCEPT !.read = GalleryData(Visible(Committed, fnCall.work)),
                                !.readPc = fnCall.pc]
    /\ UNCHANGED <<disk, seen, images, artists, meta>>
    /\ TxnFrame

\* finish called by any holder of a job id, current or not.
FinishCall(j, r) ==
    /\ LockFree(jobLock)
    /\ jobState' = Finish(jobState, j, WorkerOk(r.errors), "Download job completed.",
                          r.stats, r.errors)
    /\ lastOp' = Op("finish", "", <<>>, j,
                    IF j = jobState.job_id THEN "current job" ELSE "other job")
    /\ UNCHANGED <<disk, dlVars, engineVars, meta, outside, tagCall, fnCall, jobLock, jobCalls,
                   reqPc, reqSnap, wPc, wResult, wExc>>

CatIdle ==
    /\ meta = [p \in DestPaths |-> NoMeta]
    /\ outside = TRUE
    /\ lastOp = NoOp
    /\ tagCall = NoTagCall
    /\ fnCall = NoFnCall

EmptyDisk == [p \in Paths |-> NoFile]

DlIdle ==
    /\ dlPc = "idle"
    /\ dlUrl = "orig"
    /\ dlDest = [user |-> "u1", id |-> "d1", part |-> FALSE]
    /\ dlFail = "none"
    /\ dlRaised = "none"
    /\ dlResult = "none"
    /\ dlReqs = 0
    /\ dlExisted = FALSE
    /\ dlLog = <<>>

\* A fresh database and an engine at rest.
\* No run and no pass in hand.
RunIdle ==
    /\ orchPc = "off"
    /\ kind = "web"
    /\ cfg = InitialConfig
    /\ userIdx = 1
    /\ cycle = ZeroCycle
    /\ errors = <<>>
    /\ puoPc = "none"
    /\ seen_set = {}
    /\ seeded_set = {}
    /\ local_ids = {}
    /\ processed_this_run = {}
    /\ pagesDone = 0
    /\ itemsLeft = 0
    /\ stats = ZeroStats
    /\ puoExc = "none"
    /\ puoExcAt = "none"
    /\ startStale = {}
    /\ startHandled = {}
    /\ dlFailedNow = {}
    /\ prevFailed = [u \in Users |-> {}]
    /\ lastItem = NoItem
    /\ lastPage = "none"
    /\ lastDeleted = FALSE

EngineIdle ==
    /\ seen = [u \in Users |-> <<>>]
    /\ images = {}
    /\ artists = {}
    /\ RunIdle

\* The output tree before a call: a destination is absent or was completed by
\* an earlier run; a ".part" file may be left over from a killed process.
InitDL ==
    /\ \E d0 \in {NoFile, FullBody("orig")},
          p0 \in {NoFile, [url |-> "orig", len |-> 1]} :
         disk = [EmptyDisk EXCEPT ![[user |-> "u1", id |-> "d1", part |-> FALSE]] = d0,
                                  ![[user |-> "u1", id |-> "d2", part |-> TRUE]] = p0]
    /\ DlIdle
    /\ EngineIdle
    /\ JobIdle
    /\ CatIdle

NextDL ==
    \/ \E url \in Urls, dest \in DlDests : DlCall(url, dest)
    \/ DlGet
    \/ DlOpen
    \/ DlChunk
    \/ DlReplace
    \/ DlExcept
    \/ DlReturn

SpecDL == InitDL /\ [][NextDL]_vars

\* ------------------------------------------------ the reconciliation engine
Init ==
    /\ disk = EmptyDisk
    /\ DlIdle
    /\ EngineIdle
    /\ JobIdle
    /\ CatIdle

Next ==
    \/ \E k \in {"cli", "web"}, legacy \in LegacyFiles : StartProcess(k, legacy)
    \/ \E c \in Configs(OneAccount) : StartRun(c)
    \/ StopProcess
    \/ CallPass
    \/ PuoPrepare
    \/ FetchPage
    \/ ProcessItem
    \/ EndPage
    \/ PuoTrim
    \/ PassReturned
    \/ PassRaised
    \/ FinishRun
    \/ \E p \in Paths : DeleteImage(p)
    \/ \E u \in Users : DeleteArtistImages(u)
    \/ \E p \in Paths : ExternalUnlink(p)

Spec == Init /\ [][Next]_vars

\* ------------------------------------------- runs over a list of accounts
OrchConfigs == [usernames : AccountLists, seed_only : {FALSE}, allow_preview : {FALSE},
                max_seen : {MaxSeenCfg}, max_pages : {MaxPages}]

NextOrch ==
    \/ \E k \in {"cli", "web"} : StartProcess(k, "missing")
    \/ \E c \in OrchConfigs : StartRun(c)
    \/ CallPass
    \/ PuoPrepare
    \/ FetchPage
    \/ ProcessItem
    \/ EndPage
    \/ PuoTrim
    \/ PassReturned
    \/ PassRaised
    \/ FinishRun

SpecOrch == Init /\ [][NextOrch]_vars

\* ------------------------------------------------------ the background job
NextJob ==
    \/ \E t \in ReqThreads : TryStartEnter(t)
    \/ \E t \in ReqThreads : TryStartCheck(t)
    \/ \E t \in ReqThreads, usernames \in AccountLists : TryStartWrite(t, usernames)
    \/ \E t \in ReqThreads : StartWorker(t)
    \/ \E t \in ReqThreads : AnswerBusy(t)
    \/ \E j \in JobIds : WorkerRun(j)
    \/ \E j \in JobIds : WorkerScan(j)
    \/ \E j \in JobIds : WorkerFinish(j)
    \/ \E j \in JobIds : WorkerExcept(j)

SpecJob == Init /\ [][NextJob]_vars

\* api_run between try_start and Thread.start: build_runtime_config reads
\* MAX_SEEN_IDS and REQUEST_TIMEOUT_SECONDS with env_int, which raises
\* SystemExit on a value that is not an integer. The request thread ends
\* there: no worker thread is created and nobody calls finish.
BuildConfigRaises(t) ==
    /\ reqPc[t] = "started"
    /\ reqPc' = [reqPc EXCEPT ![t] = "idle"]
    /\ reqSnap' = [reqSnap EXCEPT ![t] = InitialJobState]
    /\ UNCHANGED <<disk, dlVars, engineVars, catVars, jobLock, jobState, jobCalls, wPc, wResult,
                   wExc>>

\* The route with both outcomes of build_runtime_config.
NextJobLive ==
    \/ NextJob
    \/ \E t \in ReqThreads : BuildConfigRaises(t)

\* Every thread that exists is scheduled and its calls return: a request
\* inside try_start or after it takes its next step, and so does a worker.
\* Requests arrive or not.
JobFairness ==
    /\ \A t \in ReqThreads :
          /\ WF_vars(TryStartCheck(t))
          /\ WF_vars(\E usernames \in AccountLists : TryStartWrite(t, usernames))
          /\ WF_vars(StartWorker(t) \/ BuildConfigRaises(t))
          /\ WF_vars(AnswerBusy(t))
    /\ \A j \in JobIds :
          /\ WF_vars(WorkerRun(j))
          /\ WF_vars(WorkerScan(j))
          /\ WF_vars(WorkerFinish(j))
          /\ WF_vars(WorkerExcept(j))

SpecJobLive == Init /\ [][NextJobLive]_vars /\ JobFairness

\* The same threads when build_runtime_config always returns.
SpecJobLiveStarted == Init /\ [][NextJob]_vars /\ JobFairness

\* The job state as an object: requests call try_start, and finish is
\* called with any job id, current or not.
NextJobState ==
    \/ \E t \in ReqThreads : TryStartEnter(t)
    \/ \E t \in ReqThreads : TryStartCheck(t)
    \/ \E t \in ReqThreads, usernames \in OneAccount : TryStartWrite(t, usernames)
    \/ \E t \in ReqThreads : StartWorker(t)
    \/ \E t \in ReqThreads : AnswerBusy(t)
    \/ \E j \in 0..MaxJobCalls, r \in RunResults : FinishCall(j, r)

SpecJobState == Init /\ [][NextJobState]_vars

\* ------------------------------------------------- the store on its own
NextStore ==
    \/ \E u \in Users, id \in Ids, seeded \in BOOLEAN : StoreUpsertSeen(u, id, seeded)
    \/ \E u \in Users, id \in Ids : StoreRemoveSeen(u, id)
    \/ \E u \in Users, n \in TrimArgs : StoreTrimSeen(u, n)

SpecStore == Init /\ [][NextStore]_vars

\* --------------------------------------- the legacy state file's import
\* The store changes between start-ups; each start-up imports the file.
NextMigrate ==
    \/ \E u \in Users, id \in Ids, seeded \in BOOLEAN : StoreUpsertSeen(u, id, seeded)
    \/ \E u \in Users, id \in Ids : StoreRemoveSeen(u, id)
    \/ \E file \in StateFiles : StoreMigrate(file)

SpecMigrate == Init /\ [][NextMigrate]_vars

\* ------------------------------------------ deleting from the gallery
\* Files appear, are catalogued by a sync and marked seen; images and
\* whole accounts are deleted.
NextDelete ==
    \/ \E id \in Ids, seeded \in BOOLEAN : StoreUpsertSeen("u1", id, seeded)
    \/ \E p \in StoreFiles : StorePutFile(p)
    \/ StoreSync
    \/ \E rel \in RelPaths : StoreDeleteImage(rel)
    \/ \E u \in Users : StoreDeleteArtist(u)

SpecDelete == Init /\ [][NextDelete]_vars

\* ------------------------------------------------ the catalog's rows
\* The catalog as a release without title, tags and favorite columns left
\* it: _migrate_images_schema gives every old row '' and 0.
InitCatalog ==
    /\ \E old \in SUBSET {q \in StoreFiles : ~q.part} :
         /\ disk = [p \in Paths |-> IF p \in old THEN FullBody("orig") ELSE NoFile]
         /\ images = old
         /\ artists = {p.user : p \in old}
    /\ seen = [u \in Users |-> <<>>]
    /\ DlIdle
    /\ RunIdle
    /\ JobIdle
    /\ CatIdle

NextCatalog ==
    \/ \E p \in StoreFiles : StorePutFile(p)
    \/ \E p \in StoreFiles : StoreUnlinkFile(p)
    \/ StoreSync
    \/ \E p \in {q \in StoreFiles : ~q.part}, title \in TitleArgs, tag_list \in TagArgs :
         CatUpsertImage(p, title, tag_list)
    \/ \E p \in {q \in StoreFiles : ~q.part}, fav \in BOOLEAN : CatSetFavorite(p, fav)

SpecCatalog == InitCatalog /\ [][NextCatalog]_vars

\* Tag normalisation alone: a tag sequence arrives, and is normalised on the
\* way to the catalog.
InitTags ==
    /\ disk = EmptyDisk
    /\ DlIdle
    /\ EngineIdle
    /\ JobIdle
    /\ meta = [p \in DestPaths |-> NoMeta]
    /\ outside = TRUE
    /\ lastOp = NoOp
    /\ tagCall \in {TagCall("input", t, <<>>, "") : t \in TagInputs}
    /\ fnCall = NoFnCall

NextTags ==
    \/ TagsExtract
    \/ TagsStore
    \/ TagsStoreRaw

SpecTags == InitTags /\ [][NextTags]_vars

\* Everything but the function call in hand is idle.
FnIdle ==
    /\ disk = EmptyDisk
    /\ DlIdle
    /\ EngineIdle
    /\ JobIdle
    /\ meta = [p \in DestPaths |-> NoMeta]
    /\ outside = TRUE
    /\ lastOp = NoOp
    /\ tagCall = NoTagCall

\* api_get alone: one call per token state, transport and answer.
InitApi == FnIdle /\ fnCall \in ApiCalls

NextApi ==
    \/ ApiEnsureToken
    \/ ApiGet

SpecApi == InitApi /\ [][NextApi]_vars

\* File names alone: a name is built for an item, the file is downloaded,
\* and the next run reads the id back from the name.
InitNames == FnIdle /\ fnCall \in NameCalls

NextNames ==
    \/ NameBuild
    \/ NameCollect

SpecNames == InitNames /\ [][NextNames]_vars

\* The page window alone: one pass per combination of arguments.
InitWindow == FnIdle /\ fnCall \in WindowCalls

NextWindow ==
    \/ WindowNormalize
    \/ WindowFetch
    \/ WindowEnd

SpecWindow == InitWindow /\ [][NextWindow]_vars

\* The token alone: one api_get per token held and token endpoint answer.
InitToken == FnIdle /\ fnCall \in TokenCalls

NextToken ==
    \/ TokenEnsure
    \/ TokenPost
    \/ TokenSend

SpecToken == InitToken /\ [][NextToken]_vars

\* The standalone server: requests to the three routes on three threads.
InitWeb == FnIdle /\ fnCall = WebIdle

NextWeb ==
    \/ \E t \in WebThreads, route \in LockedRoutes : WebArrive(t, route)
    \/ \E t \in WebThreads : WebAcquire(t)
    \/ \E t \in WebThreads : WebBody(t)
    \/ \E t \in WebThreads : WebRelease(t)

SpecWeb == InitWeb /\ [][NextWeb]_vars

\* The store under a reader: files with and without rows, rows with and
\* without files, and one writing operation at a time.
InitTxn ==
    /\ \E files \in SUBSET {q \in StoreFiles : ~q.part},
          rows \in SUBSET {q \in StoreFiles : ~q.part} :
         /\ disk = [q \in Paths |-> IF q \in files THEN FullBody("orig") ELSE NoFile]
         /\ images = rows
    /\ artists = {"u1"}
    /\ seen = [u \in Users |-> IF u = "u1" THEN <<[id |-> "d1", seeded |-> FALSE]>>
                               ELSE <<>>]
    /\ DlIdle
    /\ RunIdle
    /\ JobIdle
    /\ meta = [q \in DestPaths |-> NoMeta]
    /\ outside = TRUE
    /\ lastOp = NoOp
    /\ tagCall = NoTagCall
    /\ fnCall = NoTxn

NextTxn ==
    \/ \E call \in TxnOps : TxnBegin(call)
    \/ TxnFirst
    \/ TxnLast
    \/ TxnCommit
    \/ TxnRollback
    \/ TxnRead

SpecTxn == InitTxn /\ [][NextTxn]_vars

\* ================================================================ claims

\* C1: download_file is idempotent per destination: a call whose destination
\* is already on disk returns False and issues no HTTP request, a call that
\* returns True issued exactly one, and every call for a destination that
\* follows a successful one for it returns False with no request.
C1_DownloadIdempotent ==
    /\ \A i \in 1..Len(dlLog) :
          /\ dlLog[i].existed => (dlLog[i].result = "False" /\ dlLog[i].reqs = 0)
          /\ dlLog[i].result = "True" => dlLog[i].reqs = 1
    /\ \A i, j \in 1..Len(dlLog) :
          (i < j /\ dlLog[i].dest = dlLog[j].dest /\ dlLog[i].result = "True")
            => (dlLog[j].result = "False" /\ dlLog[j].reqs = 0)

C1_Witness ==
    \E i, j \in 1..Len(dlLog) :
        /\ i < j
        /\ dlLog[i].dest = dlLog[j].dest
        /\ dlLog[i].result = "True"
        /\ dlLog[j].result = "False"

\* C2: at every point of download_file, failures included, every final
\* destination path is absent or holds a complete response body; a partial
\* body is only ever at a ".part" path.
C2_NoPartialAtDestination ==
    \A p \in DestPaths : disk[p] = NoFile \/ \E u \in Urls : disk[p] = FullBody(u)

C2_Witness ==
    /\ dlPc = "except"
    /\ dlFail = "ChunkedEncodingError"
    /\ dlUrl = "orig"
    /\ disk[TmpPath(dlDest)] = [url |-> "orig", len |-> 1]

\* C3: when download_file fails after its existence check, then on return
\* the ".part" file is gone, the destination was not created, and the
\* exception that reaches the caller is the one that was raised.
C3_FailureCleansUp ==
    (dlPc = "returned" /\ dlResult = "raise")
      => /\ ~Exists(disk, [dlDest EXCEPT !.part = TRUE])
         /\ ~Exists(disk, dlDest)
         /\ dlFail # "none"
         /\ dlRaised = dlFail

C3_Witness ==
    /\ dlPc = "returned"
    /\ dlResult = "raise"
    /\ dlRaised = "ChunkedEncodingError"
    /\ ~Exists(disk, [dlDest EXCEPT !.part = TRUE])

\* C4: a download_file network error in process_user_once is caught: the pass
\* is never left by a requests exception raised at download_file, every item
\* whose download failed this way is counted as skipped and is in neither the
\* seen store nor seen_set for the rest of the pass, and the iteration loop
\* goes on.  In the next pass of the account, if that pass is not seed-only
\* and the id was not back in the seen store when it began, the first
\* observation of the id treats it as new instead of skipping it as handled.
C4_FailedDownloadSkippedAndRetried ==
    puoPc # "none" =>
      /\ (puoPc = "raised" /\ puoExcAt = "download_file") => ~IsRequestException(puoExc)
      /\ dlFailedNow \cap GetSeenIds(seen, CurUser) = {}
      /\ dlFailedNow \cap seen_set = {}
      /\ dlFailedNow \subseteq processed_this_run
      /\ stats.skipped >= Cardinality(dlFailedNow)
      /\ lastItem.branch = "dl_neterr" => (puoPc = "items" /\ lastItem.id \in dlFailedNow)
      /\ ( /\ lastItem.id \in prevFailed[CurUser]
           /\ ~cfg.seed_only
           /\ lastItem.id \notin startHandled
           /\ lastItem.branch # "dup" )
           => lastItem.branch \notin {"handled", "seed", "invalid", "none"}

C4_Witness ==
    /\ puoPc = "items"
    /\ lastItem.id \in prevFailed[CurUser]
    /\ lastItem.branch = "downloaded"
    /\ dlFailedNow # {}
    /\ stats.new_items = 2

\* C4 as stated: whenever a later run observes an item whose download failed
\* on the network in the previous pass, it attempts the download again (the
\* item is never merely seeded or skipped as already handled).
C4_LaterRunAlwaysRetries ==
    (puoPc # "none" /\ lastItem.id \in prevFailed[CurUser])
      => lastItem.branch \notin {"seed", "handled"}

\* C5: in a pass that is not seed-only, once the recovery step has run, an id
\* that was stale when the pass began (seen, not seeded, no local file) is
\* absent from the seen store and from seen_set unless this same pass has
\* processed it as a new item and marked it again, unseeded.
C5_StaleRecovered ==
    (puoPc \in {"page", "items", "trim", "returned", "raised"} /\ ~cfg.seed_only)
      => \A id \in startStale :
           /\ id \in GetSeenIds(seen, CurUser)
                => (id \in processed_this_run /\ id \notin GetSeededIds(seen, CurUser))
           /\ id \in seen_set
                => (id \in processed_this_run /\ id \notin seeded_set)

C5_Witness ==
    /\ puoPc = "returned"
    /\ ~cfg.seed_only
    /\ \E id \in startStale : id \notin GetSeenIds(seen, CurUser) /\ id \notin seen_set

\* C5 as stated: after a non-seed-only pass every id that was stale when the
\* pass began is absent from the seen set.
C5_StaleAbsentAfterPass ==
    (puoPc = "returned" /\ ~cfg.seed_only) => startStale \cap GetSeenIds(seen, CurUser) = {}

\* C6: a failure of one item's download-info fetch or tag detail fetch, API
\* error or network failure alike, never makes process_user_once raise.
C6_InfoFailureNeverAborts ==
    puoPc = "raised" => puoExcAt \notin {"fetch_download_info", "fetch_deviation"}

\* C7: in a run over several accounts, once the run is over every account of
\* the list has either been reconciled or has its failure recorded as an
\* error of the run, whatever the exception and whichever orchestrator.
C7_AccountFailureIsolated ==
    (orchPc \in {"done", "crashed"} /\ Len(cfg.usernames) > 1)
      => cycle.users_checked + Len(errors) = Len(cfg.usernames)

ActiveWorkers == {j \in JobIds : wPc[j] \in {"run", "scan", "finish", "except"}}
StartedRequests == {t \in ReqThreads : reqPc[t] = "started"}

\* C8: at most one download run is in flight (a started request whose worker
\* is not yet running, or a worker that has not finished), and the job state
\* says running throughout; a rejected try_start returns a snapshot that says
\* running, and the step that rejects changes no field of the job state.
C8_AtMostOneRunInFlight ==
    /\ [](/\ Cardinality(ActiveWorkers) + Cardinality(StartedRequests) <= 1
          /\ (ActiveWorkers # {} \/ StartedRequests # {}) => jobState.running
          /\ \A t \in ReqThreads :
                reqPc[t] = "busy" => (reqSnap[t].running /\ jobLock # t))
    /\ [][\A t \in ReqThreads :
            (reqPc[t] = "check" /\ reqPc'[t] = "busy")
              => (jobState' = jobState /\ reqSnap'[t] = jobState /\ wPc' = wPc)]_vars

C8_Witness ==
    /\ \E t \in ReqThreads : reqPc[t] = "busy" /\ reqSnap[t].job_id = 2
    /\ \E j \in JobIds : wPc[j] = "scan"
    /\ \E j \in JobIds : wPc[j] = "done"

\* C9: a worker that is still running owns the current job id, so its finish
\* is applied; once it is done and no later job has started, the job state is
\* a finished one: not running, with a stats block and an error list, and ok
\* is false exactly when the error list is non-empty.
C9_WorkerAlwaysRecordsFinish ==
    \A j \in JobIds :
      /\ j \in ActiveWorkers => (jobState.job_id = j /\ jobState.running)
      /\ (wPc[j] = "done" /\ jobState.job_id = j)
           => /\ ~jobState.running
              /\ jobState.ok \in {"True", "False"}
              /\ jobState.stats \in RunStats
              /\ jobState.errors \in Seq({"API error for @u1", "OperationalError", "OSError"})
              /\ (jobState.ok = "False") <=> (jobState.errors # <<>>)

C9_Witness ==
    \E j \in JobIds :
      /\ wPc[j] = "done"
      /\ jobState.job_id = j
      /\ j > 1
      /\ jobState.ok = "False"
      /\ jobState.message = "Download job completed with errors."

\* C10: for every account the seeded ids of the store are among its seen ids,
\* and at every point of process_user_once seeded_set is a subset of seen_set.
C10_SeededSubsetOfSeen ==
    /\ \A u \in Users : GetSeededIds(seen, u) \subseteq GetSeenIds(seen, u)
    /\ seeded_set \subseteq seen_set

C10_Witness ==
    /\ puoPc = "items"
    /\ lastItem.branch = "handled"
    /\ seeded_set # {}
    /\ seeded_set # seen_set
    /\ GetSeededIds(seen, "u2") # {}

LastRows(rows, k) == SubSeq(rows, Len(rows) - k + 1, Len(rows))

\* C11: a trim_seen(account, N) step with N >= 1 leaves exactly
\* min(N, priorCount) seen rows for the account, namely the most recently
\* inserted ones in their order, and leaves every other account's rows as
\* they were; with N < 1 the step changes no row at all.
C11_TrimKeepsNewest ==
    [][lastOp'.op = "trim_seen" =>
         LET u == lastOp'.user
             n == lastOp'.n
             prior == Len(seen[u])
         IN  /\ \A v \in Users \ {u} : seen'[v] = seen[v]
             /\ n >= 1 => /\ Len(seen'[u]) = Min(n, prior)
                          /\ seen'[u] = LastRows(seen[u], Min(n, prior))
             /\ n < 1 => seen'[u] = seen[u]]_vars

C11_Witness ==
    /\ lastOp.op = "trim_seen"
    /\ lastOp.n = 2
    /\ lastOp.user = "u1"
    /\ seen["u1"] = <<[id |-> "d2", seeded |-> TRUE], [id |-> "d1", seeded |-> FALSE]>>
    /\ Len(seen["u2"]) = 2

\* C11 as stated: for every integer N passed, exactly min(N, priorCount)
\* seen rows remain for the account after trim_seen(account, N) (no row at
\* all when N is zero or negative).
C11_TrimEveryInteger ==
    [][lastOp'.op = "trim_seen" =>
         Len(seen'[lastOp'.user]) =
            Min(IF lastOp'.n < 0 THEN 0 ELSE lastOp'.n, Len(seen[lastOp'.user]))]_vars

\* C12: in a seed-only pass no item reaches download resolution or
\* download_file (no download, no skip, no failure at those calls), every
\* item the pass takes as new is put in seeded_set at once and stays there,
\* and it is a seeded row of the store until trim_seen runs; an item that is
\* skipped as already handled was in seen_set before it was observed.
C12_SeedOnlyNeverDownloads ==
    (puoPc # "none" /\ cfg.seed_only) =>
      /\ lastItem.branch \in {"none", "invalid", "dup", "handled", "seed"}
      /\ stats.downloaded = 0 /\ stats.existing = 0 /\ stats.skipped = 0
      /\ dlFailedNow = {}
      /\ puoExcAt \notin {"download_file", "fetch_download_info", "fetch_deviation"}
      /\ processed_this_run \subseteq seeded_set
      /\ stats.new_items = Cardinality(processed_this_run)
      /\ puoPc \in {"page", "items", "trim"}
           => processed_this_run \subseteq GetSeededIds(seen, CurUser)
      /\ lastItem.branch = "handled" => lastItem.id \in seen_set

C12_Witness ==
    /\ puoPc = "returned"
    /\ cfg.seed_only
    /\ stats.new_items = 2
    /\ Cardinality(seeded_set) = 2
    /\ Cardinality(GetSeededIds(seen, CurUser)) = 1

\* C12 as stated: in a seed-only pass every item observed in the fetched
\* pages is in the seeded set (an observed item is never touched again by
\* the pass, so this is where it ends the run).
C12_EveryObservedItemSeeded ==
    (puoPc = "items" /\ cfg.seed_only /\ lastItem.id # "") => lastItem.id \in seeded_set

\* C13: a further page is fetched only after a page that said has_more with
\* a next_offset and while the window is not used up; pages_checked is the
\* number of pages fetched and never exceeds the window; new_items is the
\* number of distinct ids of those pages that were not already handled.
C13_PagingStopsAndCounts ==
    puoPc # "none" =>
      /\ (puoPc = "page" /\ pagesDone > 0) => (lastPage = "more" /\ pagesDone < cfg.max_pages)
      /\ (puoPc = "items" /\ pagesDone > 1) => lastPage = "more"
      /\ lastPage = "last" => puoPc \in {"trim", "returned"}
      /\ stats.pages_checked = pagesDone
      /\ stats.pages_checked <= cfg.max_pages
      /\ stats.new_items = Cardinality(processed_this_run)
      /\ puoPc = "returned" => stats.pages_checked >= 1

C13_Witness ==
    /\ puoPc = "returned"
    /\ lastPage = "last"
    /\ stats.pages_checked = 1
    /\ stats.pages_checked < cfg.max_pages
    /\ stats.new_items = 1
    /\ stats.downloaded = 1

\* A relative path escapes when following it from the output directory
\* ends somewhere that is not below (or at) the output directory.
Escapes(rel) ==
    LET target == Resolve(OutputDir, rel)
    IN  target = <<>> \/ target[1] # "downloads"

\* C14: delete_image with a relative path that resolves outside the output
\* directory returns deleted=false ("Invalid relative_path.") and changes
\* nothing: no file inside or outside the tree is removed, and no catalog
\* row, seen row or artist row is touched.
C14_OutsidePathChangesNothing ==
    [][(lastOp'.op = "delete_image" /\ Escapes(lastOp'.path)) =>
          /\ lastOp'.result = "invalid"
          /\ UNCHANGED <<disk, outside, images, meta, seen, artists>>]_vars

C14_Witness ==
    /\ lastOp.op = "delete_image"
    /\ lastOp.path = <<"u1", "..", "..", "secret.jpg">>
    /\ lastOp.result = "invalid"
    /\ outside
    /\ images # {}
    /\ seen["u1"] # <<>>

\* The paths of the tree a relative path names, once resolved.
NamedFiles(rel) == {p \in Paths : OutputDir \o RelativePath(p) = Resolve(OutputDir, rel)}

\* C15 (amended): after delete_image on a path inside the output directory
\* the file it names is absent and no catalog row has that path; when a
\* catalog row had that path (the call returns its artist), the seen record
\* of that row's (account, item id) is absent too, so the next pass does not
\* take the item as already handled.
C15_CataloguedImageForgotten ==
    (lastOp.op = "delete_image" /\ lastOp.result # "invalid") =>
        /\ \A p \in NamedFiles(lastOp.path) : ~Exists(disk, p)
        /\ \A p \in images : RelativePath(p) # lastOp.path
        /\ lastOp.user # "" =>
             \A p \in DestPaths :
                RelativePath(p) = lastOp.path =>
                   /\ lastOp.user = p.user
                   /\ lastOp.result = "deleted"
                   /\ p.id \notin GetSeenIds(seen, p.user)
                   /\ ~AlreadyHandled(p.id, GetSeenIds(seen, p.user),
                                      GetSeededIds(seen, p.user),
                                      CollectLocalDeviationIds(disk, p.user))

C15_Witness ==
    /\ lastOp.op = "delete_image"
    /\ lastOp.result = "deleted"
    /\ lastOp.user = "u1"
    /\ lastOp.path = <<"u1", "d1_a.jpg">>
    /\ GetSeenIds(seen, "u1") = {"d2"}
    /\ Exists(disk, [user |-> "u1", id |-> "d2", part |-> FALSE])

\* C15 as stated: after every delete_image that deleted something inside
\* the output directory, the file, the catalog row and the seen record of
\* the item are all absent.
C15_DeleteAlwaysForgets ==
    (lastOp.op = "delete_image" /\ lastOp.result = "deleted") =>
        \A p \in NamedFiles(lastOp.path) \cap DestPaths :
            /\ ~Exists(disk, p)
            /\ p \notin images
            /\ p.id \notin GetSeenIds(seen, p.user)

\* C16 as stated: after delete_artist_images(account) the call has not
\* failed, and no file, no catalog row and no seen row of the account
\* remains.
C16_ArtistDeletedCompletely ==
    lastOp.op = "delete_artist_images" =>
        /\ lastOp.result # "OSError"
        /\ \A p \in Paths : p.user = lastOp.user => ~Exists(disk, p)
        /\ \A p \in images : p.user # lastOp.user
        /\ seen[lastOp.user] = <<>>

Suffix(name) == IF name \in {"d1_a.jpg", "d2_b.jpg"} THEN ".jpg" ELSE ".part"
ImageExtensions == {".jpg", ".jpeg", ".png", ".gif", ".webp", ".bmp", ".avif"}

\* C19: immediately after sync_images_from_filesystem returns, the paths
\* with a catalog row are exactly the files under the output tree whose
\* extension is in the allow-list, and the call reports that many
\* discovered files.
C19_CatalogMirrorsDisk ==
    lastOp.op = "sync_images_from_filesystem" =>
        /\ images = {p \in Paths : Exists(disk, p) /\ Suffix(FileName(p)) \in ImageExtensions}
        /\ lastOp.n = Cardinality(images)

C19_Witness ==
    /\ lastOp.op = "sync_images_from_filesystem"
    /\ images = {[user |-> "u1", id |-> "d2", part |-> FALSE]}
    /\ Exists(disk, [user |-> "u1", id |-> "d1", part |-> TRUE])
    /\ ~Exists(disk, [user |-> "u1", id |-> "d1", part |-> FALSE])
    /\ meta[[user |-> "u1", id |-> "d2", part |-> FALSE]].favorite

\* C21 as stated: migrate_from_state_json applied again to the same legacy
\* file leaves the store as the first application left it, and for a file
\* that is missing, is not valid JSON (text or bytes), or has no "users"
\* object it returns zero counts and changes nothing.
C21_MigrateIdempotentTolerant ==
    [][lastOp'.op = "migrate_from_state_json" =>
          /\ (lastOp'.path = <<"state">> /\ lastOp = lastOp') =>
                (seen' = seen /\ artists' = artists)
          /\ lastOp'.path # <<"state">> =>
                /\ lastOp'.result = "returned"
                /\ lastOp'.n = 0
                /\ seen' = seen
                /\ artists' = artists]_vars

\* C22: the job id only ever stays or grows by one; a try_start that
\* succeeds increases it by exactly one and returns it, a try_start that is
\* rejected changes nothing of the job state; finish(job_id, ...) called
\* with another id than the current one changes nothing, and called with
\* the current id it ends that job and keeps the id.
C22_JobIdMonotonicFinishKeyed ==
    [][/\ jobState'.job_id \in {jobState.job_id, jobState.job_id + 1}
       /\ \A t \in ReqThreads :
             /\ (reqPc[t] = "write" /\ reqPc'[t] = "started") =>
                   /\ jobState'.job_id = jobState.job_id + 1
                   /\ jobState'.running
                   /\ reqSnap'[t].job_id = jobState'.job_id
             /\ (reqPc[t] = "check" /\ reqPc'[t] # "write") => jobState' = jobState
             /\ (reqPc[t] = "check" /\ reqPc'[t] = "write") => ~jobState.running
       /\ (lastOp'.op = "finish" /\ reqPc' = reqPc) =>
             /\ lastOp'.n # jobState.job_id => jobState' = jobState
             /\ lastOp'.n = jobState.job_id =>
                   /\ jobState'.job_id = jobState.job_id
                   /\ ~jobState'.running
       /\ (reqPc' # reqPc /\ \A t \in ReqThreads : reqPc[t] # "write") =>
             jobState' = jobState]_vars

C22_Witness ==
    /\ lastOp.op = "finish"
    /\ lastOp.n = 1
    /\ lastOp.result = "other job"
    /\ jobState.job_id = 2
    /\ jobState.running
    /\ jobCalls = 3

\* An api_get call whose GET was answered.
ApiAnswered ==
    /\ fnCall.fn = "api_get"
    /\ fnCall.pc = "done"
    /\ fnCall.token \in {"valid", "refreshed"}
    /\ fnCall.transport = "response"

\* C23: api_get raises DeviantArtApiError carrying the status code and the
\* parsed payload whenever the answer's status is >= 400 or its JSON body is
\* an object with an "error" key (on a 2xx status too), and returns the
\* parsed payload otherwise.
C23_ApiGetRaisesOnErrors ==
    ApiAnswered =>
        IF fnCall.status >= 400 \/ fnCall.body \in {"json_error", "json_error_null"}
          THEN /\ fnCall.result.kind = "raise"
               /\ fnCall.result.exc = "DeviantArtApiError"
               /\ fnCall.result.status_code = fnCall.status
               /\ fnCall.result.payload = ParseJson(fnCall.body)
          ELSE /\ fnCall.result.kind = "return"
               /\ fnCall.result.payload = ParseJson(fnCall.body)
               /\ fnCall.result.payload \in {"data", "empty"}

C23_Witness ==
    /\ ApiAnswered
    /\ fnCall.token = "refreshed"
    /\ fnCall.status = 200
    /\ fnCall.body = "json_error"
    /\ fnCall.result = Raised("DeviantArtApiError", 200, "error")

\* One iteration of the item loop of the pass in hand.
ItemStep == puoPc = "items" /\ puoPc' \in {"items", "raised"} /\ itemsLeft' = itemsLeft - 1

\* C24: an iteration whose download_file call succeeded, having written the
\* file or found it there, leaves the item seen and not seeded in the store
\* and in seen_set/seeded_set, its id in local_ids and its output path in the
\* catalog; it increments downloaded and not existing when the call wrote
\* the file, existing and not downloaded when the file was there, and no
\* other counter than that one.
C24_SuccessfulDownloadRecorded ==
    [][(ItemStep /\ lastItem'.branch \in {"downloaded", "existing"}) =>
          LET id == lastItem'.id
              u == CurUser
              dest == BuildOutputPath(u, id)
          IN  /\ id \in GetSeenIds(seen', u) \ GetSeededIds(seen', u)
              /\ id \in seen_set' \ seeded_set'
              /\ id \in local_ids'
              /\ dest \in images'
              /\ u \in artists'
              /\ Exists(disk', dest)
              /\ IF Exists(disk, dest)
                   THEN /\ lastItem'.branch = "existing"
                        /\ disk' = disk
                        /\ stats' = [stats EXCEPT !.new_items = @ + 1, !.existing = @ + 1]
                   ELSE /\ lastItem'.branch = "downloaded"
                        /\ stats' = [stats EXCEPT !.new_items = @ + 1, !.downloaded = @ + 1]]_vars

C24_Witness ==
    /\ puoPc = "items"
    /\ lastItem = [id |-> "d2", branch |-> "existing"]
    /\ stats.existing = 1
    /\ stats.downloaded = 1
    /\ GetSeenIds(seen, CurUser) = {"d1", "d2"}
    /\ GetSeededIds(seen, CurUser) = {}
    /\ local_ids = {"d1", "d2"}

DownloadBranches == {"downloaded", "existing", "dl_neterr", "dl_raise"}
\* The branches of an iteration that classified its item.
ClassifiedBranches ==
    DownloadBranches \cup {"seed", "deleted", "nourl", "info_raise", "detail_raise"}

\* C26: within one pass the first occurrence of an id wins. An iteration
\* over an id that an earlier iteration of the pass classified changes
\* nothing (no counter, no store row, no file, no download_file call); an
\* iteration classifies only an id not yet classified in the pass, counts it
\* once in new_items and records it, so download_file is called at most once
\* per id and pass.
C26_FirstOccurrenceWins ==
    [][ItemStep =>
          /\ lastItem'.id \in processed_this_run =>
                /\ lastItem'.branch = "dup"
                /\ UNCHANGED <<stats, seen, disk, images, seen_set, seeded_set, local_ids,
                               processed_this_run, dlFailedNow>>
          /\ lastItem'.branch \in ClassifiedBranches =>
                /\ lastItem'.id \notin processed_this_run
                /\ processed_this_run' = processed_this_run \cup {lastItem'.id}
                /\ stats'.new_items = stats.new_items + 1
          /\ lastItem'.branch \notin ClassifiedBranches =>
                /\ lastItem'.branch \in {"invalid", "dup", "handled"}
                /\ UNCHANGED <<stats, processed_this_run, disk>>]_vars

C26_Witness ==
    /\ puoPc = "items"
    /\ pagesDone = 2
    /\ lastItem = [id |-> "d1", branch |-> "dup"]
    /\ "d1" \in dlFailedNow
    /\ stats.new_items = 1
    /\ stats.skipped = 1
    /\ ~Exists(disk, BuildOutputPath(CurUser, "d1"))

\* The iterations that end without a usable url: the url is still empty at
\* `if not download_url:` ("nourl": the item is not downloadable, or its
\* download-info fetch gave no src or an error that was caught, and no content
\* src was taken as a preview), or fetch_download_info failed with an error
\* that the `except DeviantArtApiError` does not catch ("info_raise").
NoUrlBranches == {"nourl", "info_raise"}

\* C27: an item for which no usable url is resolved (not downloadable, or its
\* download-info fetch fails or returns no src, and previews are disabled) is
\* counted as skipped, no download writes anything for it, and it is not
\* marked seen, in the store or in the pass's seen_set.
C27_NoUrlItemSkipped ==
    [][ItemStep /\ ~cfg.allow_preview /\ lastItem'.branch \in NoUrlBranches =>
          /\ stats'.skipped = stats.skipped + 1
          /\ puoPc' = "items"
          /\ disk' = disk
          /\ lastItem'.id \notin seen_set'
          /\ lastItem'.id \notin GetSeenIds(seen', CurUser)]_vars

\* C28: when process_user_once returns normally with max_seen >= 1, the
\* account's seen rows in the store are at most max_seen, and they are the
\* most recently inserted of the rows the pass left, in their order; the rows
\* of the other accounts are not touched by the trim.
C28_SeenBoundedOnReturn ==
    [][(puoPc # "returned" /\ puoPc' = "returned" /\ cfg.max_seen >= 1) =>
          LET u == CurUser
              kept == Min(cfg.max_seen, Len(seen[u]))
          IN  /\ Len(seen'[u]) <= cfg.max_seen
              /\ seen'[u] = LastRows(seen[u], kept)
              /\ \A v \in Users \ {u} : seen'[v] = seen[v]]_vars

C28_Witness ==
    /\ puoPc = "returned"
    /\ cfg.max_seen = 1
    /\ stats.downloaded = 2
    /\ seen_set = {"d1", "d2"}
    /\ seen[CurUser] = <<[id |-> "d2", seeded |-> FALSE]>>

\* C29: for every item id and title, the id read back from the file name
\* build_output_path produced (the prefix before the first "_") is the item
\* id, by collect_local_deviation_ids and by sync_images_from_filesystem, so
\* the downloaded item is in the next run's local ids.
C29_IdRecoverable ==
    (fnCall.fn = "build_output_path" /\ fnCall.pc = "collected") =>
        /\ fnCall.local_ids = {fnCall.deviation_id}
        /\ fnCall.sync_ids = {fnCall.deviation_id}

\* C30: for every start_page, end_page and page_size, the window of a pass
\* is normalised: the start page is at least 1, the end page at least the
\* start page, every limit sent to the API is within 1..24, at most
\* end - start + 1 pages are fetched, and the first fetch is sent
\* offset = (start page - 1) * page size.
C30_PageWindowNormalized ==
    (fnCall.fn = "page_window" /\ fnCall.pc # "call") =>
        /\ fnCall.start >= 1
        /\ fnCall.start >= fnCall.start_page
        /\ fnCall.end >= fnCall.start
        /\ fnCall.effective_limit \in 1..24
        /\ fnCall.pages_checked <= fnCall.end - fnCall.start + 1
        /\ fnCall.pages_checked > 0 =>
              /\ fnCall.sent.limit \in 1..24
              /\ fnCall.sent.limit = fnCall.effective_limit
              /\ fnCall.first = [offset |-> (fnCall.start - 1) * fnCall.effective_limit,
                                 limit |-> fnCall.effective_limit]

C30_Witness ==
    /\ fnCall.fn = "page_window"
    /\ fnCall.pc = "done"
    /\ fnCall.start_page = 3
    /\ fnCall.end_page = Some(0)
    /\ fnCall.page_size = Some(25)
    /\ fnCall.pages_checked = 1
    /\ fnCall.first = [offset |-> 48, limit |-> 24]

\* The positions of a tag sequence that hold the first occurrence of a
\* non-empty trimmed tag, compared without regard to case.
FirstOccurrences(t) ==
    {i \in 1..Len(t) :
        /\ Strip(t[i]) # ""
        /\ \A j \in 1..(i - 1) : Lower(Strip(t[j])) # Lower(Strip(t[i]))}

\* The trimmed tags at those positions, in input order.
KeptTags(t) ==
    LET kept == SelectSeq([i \in 1..Len(t) |-> i], LAMBDA i : i \in FirstOccurrences(t))
    IN  [k \in 1..Len(kept) |-> Strip(t[kept[k]])]

\* C20: for every input tag sequence, what is stored is the first
\* occurrence of each case-insensitively distinct non-empty trimmed tag, in
\* input order and in that occurrence's casing, joined by ", "; the list
\* the watcher extracts holds the same tags; ["Art", "art", " Fantasy "] is
\* stored as "Art, Fantasy".
C20_TagsNormalized ==
    /\ tagCall.pc = "list" => tagCall.list = KeptTags(tagCall.input)
    /\ tagCall.pc = "stored" =>
         /\ tagCall.stored = Join(KeptTags(tagCall.input))
         /\ tagCall.input = <<"Art", "art", " Fantasy ">> => tagCall.stored = "Art, Fantasy"
         /\ tagCall.input = <<"  ", "fantasy", " Fantasy ">> => tagCall.stored = "fantasy"
         /\ FirstOccurrences(tagCall.input) = {} => tagCall.stored = ""

C20_Witness ==
    /\ tagCall.pc = "stored"
    /\ tagCall.input = <<"Art", "art", " Fantasy ">>
    /\ tagCall.list = <<"Art", "Fantasy">>
    /\ tagCall.stored = "Art, Fantasy"


\* C31: before an API call the client asks for a new token when it holds
\* none or fewer than 60 seconds of validity remain, every request is sent
\* with a token that had at least 60 seconds of validity when it was checked
\* or issued, and a refresh that fails ends the call with DeviantArtApiError
\* and without an API request.
C31_TokenFreshOrApiError ==
    (fnCall.fn = "ensure_token" /\ fnCall.pc = "done") =>
        /\ fnCall.sent => fnCall.validity >= 60
        /\ fnCall.exc # "none" => (fnCall.exc = "DeviantArtApiError" /\ ~fnCall.sent)
        /\ fnCall.sent \/ fnCall.exc # "none"


\* C32: what get_gallery_data reads while sync_images_from_filesystem,
\* delete_image or delete_artist_images is under way is the catalog as it
\* was before that call's statements or as it is after all of them, never
\* the rows between two of its statements.
C32_ReaderSeesWholeOperations ==
    (fnCall.fn = "txn" /\ fnCall.readPc # "none") =>
        \/ fnCall.read = GalleryData(fnCall.pre)
        \/ fnCall.read = GalleryData(fnCall.post)

C32_Witness ==
    /\ fnCall.fn = "txn"
    /\ fnCall.call.op = "sync_images_from_filesystem"
    /\ fnCall.pc = "first"
    /\ fnCall.readPc = "first"
    /\ fnCall.read = GalleryData(fnCall.pre)
    /\ GalleryData(fnCall.work) # GalleryData(fnCall.pre)
    /\ GalleryData(fnCall.work) # GalleryData(fnCall.post)


\* C33: when process_user_once returns, a pass that is not seed-only has
\* new_items = downloaded + existing + skipped, and a seed-only pass has
\* downloaded = existing = skipped = 0 and new_items equal to the number of
\* items it marked seeded; the same holds after every item of the pass.
C33_StatsAddUp ==
    puoPc \in {"items", "trim", "returned"} =>
        IF cfg.seed_only
          THEN /\ stats.downloaded = 0
               /\ stats.existing = 0
               /\ stats.skipped = 0
               /\ stats.new_items = Cardinality(processed_this_run)
               /\ processed_this_run \subseteq seeded_set
          ELSE stats.new_items = stats.downloaded + stats.existing + stats.skipped

C33_Witness ==
    /\ puoPc = "returned"
    /\ ~cfg.seed_only
    /\ stats.new_items = 2
    /\ stats.downloaded = 1
    /\ stats.existing = 0
    /\ stats.skipped = 1


\* C34: in a pass that is not seed-only, from the end of the stale-seen
\* recovery on and after every item, every id of the in-memory seen_set is
\* in seeded_set or in local_ids; and an item iteration takes the inline
\* unmark branch (an id of seen_set is classified as new) only in a
\* seed-only pass.
C34_SeenIsSeededOrLocal ==
    [][/\ (puoPc' \in {"page", "items", "trim", "returned", "raised"} /\ ~cfg'.seed_only)
            => seen_set' \subseteq (seeded_set' \cup local_ids')
       /\ (ItemStep /\ lastItem'.id \in seen_set /\ lastItem'.branch \in ClassifiedBranches)
            => cfg.seed_only]_vars

C34_Witness ==
    /\ puoPc = "items"
    /\ ~cfg.seed_only
    /\ startStale # {}
    /\ lastItem.branch = "downloaded"
    /\ lastItem.id \in startStale
    /\ seen_set \ seeded_set # {}
    /\ seeded_set # {}

\* C35: across any sequence of runs, an item whose seen row is stored with
\* seeded = true is not taken to download resolution or download by any
\* item iteration, and no step turns its row into a row with seeded = false:
\* the row stays seeded or is removed.
C35_SeededBaselineDurable ==
    [][/\ \A u \in Users : \A id \in GetSeededIds(seen, u) :
             id \in GetSeededIds(seen', u) \/ id \notin GetSeenIds(seen', u)
       /\ (ItemStep /\ lastItem'.id \in GetSeededIds(seen, CurUser))
             => lastItem'.branch \in {"dup", "handled"}]_vars


\* C36: with no other writer to the store, from the moment both sets are
\* loaded and the stale ids removed until the final trim, seen_set and
\* seeded_set of the pass are the account's seen ids and seeded ids in the
\* store.
C36_SetsMirrorStore ==
    puoPc \in {"page", "items", "trim", "raised"} =>
        /\ seen_set = GetSeenIds(seen, CurUser)
        /\ seeded_set = GetSeededIds(seen, CurUser)

C36_Witness ==
    /\ puoPc = "items"
    /\ cfg.seed_only
    /\ lastItem.branch = "seed"
    /\ lastItem.id \in startStale
    /\ seen_set = GetSeenIds(seen, CurUser)
    /\ seeded_set = GetSeededIds(seen, CurUser)
    /\ Cardinality(seen_set) = 2
    /\ Cardinality(seeded_set) = 2

C37_WorkerFinishesItsJob ==
    \A j \in JobIds : (wPc[j] = "run") ~> (wPc[j] = "done" /\ ~(jobState.running /\ jobState.job_id = j))

\* The threads between a successful acquire and the release.
InsideRunLock == {t \in WebThreads : fnCall.pc[t] \in {"body", "finally"}}

\* An acquire that finds run_lock held answers 409 in that one step and
\* leaves the lock with its holder.
RejectedWithoutBlocking ==
    \A t \in WebThreads :
        (fnCall.pc[t] = "acquire" /\ fnCall'.pc[t] # "acquire" /\ fnCall.run_lock # "none") =>
            /\ fnCall'.pc[t] = "idle"
            /\ fnCall'.status[t] = "409"
            /\ fnCall'.run_lock = fnCall.run_lock

\* C38: a download run, a delete-image request and a delete-artist request
\* are mutually exclusive: at most one of them is between acquire and
\* release, and it is the holder of run_lock; a request that finds the lock
\* held is answered 409 and its acquire is never disabled; the lock is free
\* whenever no request is inside, whatever the body ended with.
C38_RunLockExclusive ==
    /\ [](fnCall.fn = "web_app" =>
            /\ Cardinality(InsideRunLock) <= 1
            /\ \A t \in WebThreads : (t \in InsideRunLock) <=> (fnCall.run_lock = t)
            /\ (InsideRunLock = {}) <=> (fnCall.run_lock = "none")
            /\ \A t \in WebThreads : fnCall.pc[t] = "acquire" => ENABLED WebAcquire(t))
    /\ [][fnCall.fn = "web_app" => RejectedWithoutBlocking]_vars

\* A run holds the lock while a delete-image request has been answered 409
\* and a delete-artist request has left after its body raised.
C38_Witness ==
    /\ fnCall.fn = "web_app"
    /\ \E t1, t2, t3 \in WebThreads :
          /\ fnCall.pc[t1] = "body" /\ fnCall.route[t1] = "api_run"
          /\ fnCall.pc[t2] = "idle" /\ fnCall.route[t2] = "api_delete_image"
          /\ fnCall.status[t2] = "409"
          /\ fnCall.pc[t3] = "idle" /\ fnCall.route[t3] = "api_delete_artist"
          /\ fnCall.status[t3] = "raised"

\* The counters of a pass, the account counter left out.
PassCounters == {"pages_checked", "new_items", "downloaded", "existing", "skipped"}

\* C39: in run_download_job every requested account is accounted for
\* exactly once. While the loop runs, users_checked plus the number of
\* errors is the number of accounts settled so far, and every error names
\* an account settled so far; after the loop the sum is the number of
\* accounts of the request. An account that completed adds one to
\* users_checked and its own statistics to each counter and no error; an
\* account that failed adds one error naming it and changes no counter; no
\* other step of the run changes the counters or the errors.
C39_EveryAccountCountedOnce ==
    /\ []((kind = "web" /\ orchPc \in {"loop", "done"}) =>
            /\ cycle.users_checked + Len(errors) = userIdx - 1
            /\ \A i \in 1..Len(errors) :
                  \E k \in i..(userIdx - 1) : errors[i].user = cfg.usernames[k]
            /\ orchPc = "done" =>
                  cycle.users_checked + Len(errors) = Len(cfg.usernames))
    /\ [][(kind = "web" /\ orchPc = "loop") =>
            IF userIdx' # userIdx
              THEN /\ userIdx' = userIdx + 1
                   /\ \/ /\ puoPc = "returned"
                         /\ cycle'.users_checked = cycle.users_checked + 1
                         /\ \A f \in PassCounters : cycle'[f] = cycle[f] + stats[f]
                         /\ errors' = errors
                      \/ /\ puoPc = "raised"
                         /\ cycle' = cycle
                         /\ Len(errors') = Len(errors) + 1
                         /\ errors'[Len(errors')].user = cfg.usernames[userIdx]
                         /\ SubSeq(errors', 1, Len(errors)) = errors
              ELSE cycle' = cycle /\ errors' = errors]_vars

\* A web run over two accounts is over: one account completed with a
\* download, the other failed.
C39_Witness ==
    /\ kind = "web"
    /\ orchPc = "done"
    /\ Len(cfg.usernames) = 2
    /\ cycle.users_checked = 1
    /\ cycle.downloaded = 1
    /\ Len(errors) = 1

====
